---- MODULE Spec2Model ----
(***************************************************************************)
(* Font resolution and caching of the canvas render service.               *)
(*                                                                         *)
(* Strings are sequences of tokens.  A token is one character, except for  *)
(* a few multi-character tokens that the code only ever tests as a whole   *)
(* (a URL scheme such as "https://", a file extension such as ".ttf", a    *)
(* weight such as "400").                                                  *)
(*                                                                         *)
(* Node runs one continuation at a time: the code between two I/O awaits   *)
(* (fetch, readdir, writeFile, unlink, mkdir) runs without interruption,   *)
(* promise-to-promise hops included.  Each action below is one such        *)
(* stretch of code.                                                        *)
(***************************************************************************)
EXTENDS Integers, Sequences, FiniteSets, TLC

\* ------------------------------------------------------------------ bounds

\* number of resolve() calls in one behaviour
MaxCalls == 2

\* the clock stops advancing at MaxTime (in units of 12 hours)
MaxTime == 3

\* the largest number of items in a manifest a server is given to answer with
MaxItems == 5

\* the largest `retries` argument fetchWithRetry is called with (its default is 3)
MaxRetries == 4

\* the number of worker threads the pool is constructed with (os.cpus().length)
PoolSize == 2

\* number of run() calls in one behaviour
MaxTasks == 3

\* --------------------------------------------------------------- constants

\* 24 hours, in units of 12 hours
CACHE_TTL == 2

\* minimum payload of a Google Font variant, in bytes
MIN_GOOGLE_BYTES == 10000

\* minimum payload of a custom font or CSS-URL variant, in bytes
MIN_CUSTOM_BYTES == 1000

\* ----------------------------------------------------------------- strings

Lowers == <<"a","b","c","d","e","f","g","h","i","j","k","l","m",
            "n","o","p","q","r","s","t","u","v","w","x","y","z">>

Uppers == <<"A","B","C","D","E","F","G","H","I","J","K","L","M",
            "N","O","P","Q","R","S","T","U","V","W","X","Y","Z">>

Digits == {"0","1","2","3","4","5","6","7","8","9"}

Range(s) == {s[i] : i \in DOMAIN s}

\* String.prototype.toLowerCase, token by token
LowerTok(c) ==
    IF \E i \in DOMAIN Uppers : Uppers[i] = c
    THEN Lowers[CHOOSE i \in DOMAIN Uppers : Uppers[i] = c]
    ELSE c

ToLower(s) == [i \in DOMAIN s |-> LowerTok(s[i])]

\* s.split(',')[0]
SplitFirst(s) ==
    IF \E i \in DOMAIN s : s[i] = ","
    THEN SubSeq(s, 1, (CHOOSE i \in DOMAIN s :
                          s[i] = "," /\ \A j \in 1..(i-1) : s[j] # ",") - 1)
    ELSE s

RECURSIVE TrimLeft(_)
TrimLeft(s) == IF s # <<>> /\ Head(s) = " " THEN TrimLeft(Tail(s)) ELSE s

RECURSIVE TrimRight(_)
TrimRight(s) ==
    IF s # <<>> /\ s[Len(s)] = " " THEN TrimRight(SubSeq(s, 1, Len(s) - 1)) ELSE s

\* String.prototype.trim
Trim(s) == TrimRight(TrimLeft(s))

\* fontName.split(',')[0].trim()
CleanFontName(s) == Trim(SplitFirst(s))

\* s.replace(/['"]/g, '')
StripQuotes(s) == SelectSeq(s, LAMBDA c : c \notin {"'", "\""})

SafeChars == Range(Lowers) \cup Range(Uppers) \cup Digits \cup {"-", "_"}

\* s.replace(/[^a-zA-Z0-9-_]/g, '-')
SafeFilename(s) == [i \in DOMAIN s |-> IF s[i] \in SafeChars THEN s[i] ELSE "-"]

\* s.replace(/\s+/g, r): every maximal run of blanks becomes one r
RECURSIVE ReplaceBlankRuns(_, _)
ReplaceBlankRuns(s, r) ==
    IF s = <<>> THEN <<>>
    ELSE IF Head(s) = " "
         THEN <<r>> \o ReplaceBlankRuns(TrimLeft(s), r)
         ELSE <<Head(s)>> \o ReplaceBlankRuns(Tail(s), r)

StartsWith(s, p) == Len(p) <= Len(s) /\ SubSeq(s, 1, Len(p)) = p

EndsWith(s, tok) == s # <<>> /\ s[Len(s)] = tok

\* ------------------------------------------------------------- identifiers

\* fontUrlOrName.startsWith('http://') || fontUrlOrName.startsWith('https://')
IsUrl(src) == src # <<>> /\ Head(src) \in {"http://", "https://"}

\* fontUrl.includes('fonts.googleapis.com/css') || fontUrl.includes('.css')
IsCssUrl(url) == \E i \in DOMAIN url : url[i] \in {"fonts.googleapis.com/css", ".css"}

\* fontUrl.match(/\.(ttf|otf|woff|woff2)$/i), defaulting to ttf
UrlExt(url) ==
    IF url # <<>> /\ LowerTok(url[Len(url)]) \in {".ttf", ".otf", ".woff", ".woff2"}
    THEN url[Len(url)]
    ELSE ".ttf"

\* path.join(FONTS_CACHE_DIR, `${safeFilename}-${weight}.ttf`)
VariantPath(safe, weight) == safe \o <<"-", weight, ".ttf">>

\* path.join(FONTS_CACHE_DIR, `${safeFilename}.${ext}`)
CustomPath(safe, ext) == safe \o <<ext>>

\* the key of cssCache in fetchGoogleFontCSS, for the default weights
CssCacheKey(fontFamily) == fontFamily \o <<":", "300,400,500,700">>

genericFontFamilies ==
    { <<"s","e","r","i","f">>,
      <<"s","a","n","s","-","s","e","r","i","f">>,
      <<"m","o","n","o","s","p","a","c","e">>,
      <<"c","u","r","s","i","v","e">>,
      <<"f","a","n","t","a","s","y">>,
      <<"s","y","s","t","e","m","-","u","i">>,
      <<"u","i","-","s","e","r","i","f">>,
      <<"u","i","-","s","a","n","s","-","s","e","r","i","f">>,
      <<"u","i","-","m","o","n","o","s","p","a","c","e">>,
      <<"u","i","-","r","o","u","n","d","e","d">>,
      <<"e","m","o","j","i">>,
      <<"m","a","t","h">>,
      <<"f","a","n","g","s","o","n","g">>,
      <<"a","r","i","a","l">>,
      <<"h","e","l","v","e","t","i","c","a">>,
      <<"t","i","m","e","s"," ","n","e","w"," ","r","o","m","a","n">>,
      <<"t","i","m","e","s">>,
      <<"c","o","u","r","i","e","r"," ","n","e","w">>,
      <<"c","o","u","r","i","e","r">>,
      <<"v","e","r","d","a","n","a">>,
      <<"g","e","o","r","g","i","a">>,
      <<"t","a","h","o","m","a">>,
      <<"g","a","r","a","m","o","n","d">>,
      <<"i","m","p","a","c","t">>,
      <<"s","a","n","s">> }

\* genericFontFamilies.has(fontUrlOrName.split(',')[0].trim().toLowerCase())
IsGeneric(src) == ToLower(CleanFontName(src)) \in genericFontFamilies

\* ---------------------------------------------------------------- manifest

(* A manifest (a CSS text) is the sequence of the items the parser's        *)
(* patterns look at, in text order:                                         *)
(*   [k |-> "face"]                       the text "@font-face"             *)
(*   [k |-> "weight", w |-> "400"]        "font-weight: 400;"               *)
(*   [k |-> "src", id, host, ext, tt]     "src: url(<host>/<id><ext>)",     *)
(*                                        tt: followed by format('truetype')*)
(*   [k |-> "range", latin |-> b]         "unicode-range: ...",             *)
(*                                        latin: it contains U+0000-00FF    *)

Face == [k |-> "face"]

Weight(w) == [k |-> "weight", w |-> w]

Src(id, host, ext, tt) == [k |-> "src", id |-> id, host |-> host, ext |-> ext, tt |-> tt]

UnicodeRange(latin) == [k |-> "range", latin |-> latin]

\* a test that takes any body for a manifest, which C27 rules out
HasAnyBody(css) == TRUE

\* css.includes('font-face') || css.includes('@font-face')
HasFontFace(css) == \E i \in DOMAIN css : css[i].k = "face"

IsGstatic(e, ext) == e.k = "src" /\ e.host = "gstatic" /\ e.ext = ext

\* least index >= from among the indices a pattern matches at, or 0
FirstFrom(from, hits) ==
    IF \E i \in hits : i >= from
    THEN CHOOSE i \in hits : i >= from /\ \A j \in hits : j >= from => i <= j
    ELSE 0

HasWeight(urls, w) == \E i \in DOMAIN urls : urls[i].weight = w

\* a push without the test of seenWeights, which C38 rules out
PushAlways(urls, w, u) == Append(urls, [url |-> u, weight |-> w])

\* if (!seenWeights.has(weight)) { fontUrls.push({ weight, url }) }
PushUnseen(urls, w, u) == IF HasWeight(urls, w) THEN urls ELSE Append(urls, [url |-> u, weight |-> w])

\* Pattern 1: font-weight: N; ... src: url(gstatic ttf), leftmost match, lazy gap
RECURSIVE Pattern1(_, _, _)
Pattern1(css, from, urls) ==
    LET i == FirstFrom(from, {n \in DOMAIN css : css[n].k = "weight"})
        j == IF i = 0 THEN 0 ELSE FirstFrom(i + 1, {n \in DOMAIN css : IsGstatic(css[n], ".ttf")})
    IN  IF i = 0 \/ j = 0 THEN urls
        ELSE Pattern1(css, j + 1, PushUnseen(urls, css[i].w, [id |-> css[j].id, ext |-> ".ttf"]))

DefaultWeights == <<"300", "400", "700">>

\* Pattern 2: src: url(gstatic ttf) format('truetype'), weights assumed by position
RECURSIVE Pattern2(_, _, _, _)
Pattern2(css, from, index, urls) ==
    LET j == FirstFrom(from, {n \in DOMAIN css : IsGstatic(css[n], ".ttf") /\ css[n].tt})
        w == IF index + 1 \in DOMAIN DefaultWeights THEN DefaultWeights[index + 1] ELSE "400"
    IN  IF j = 0 THEN urls
        ELSE Pattern2(css, j + 1, index + 1, PushUnseen(urls, w, [id |-> css[j].id, ext |-> ".ttf"]))

\* css.split('@font-face'): the items before the first "face", then after each one
RECURSIVE Sections(_)
Sections(css) ==
    LET i == FirstFrom(1, {n \in DOMAIN css : css[n].k = "face"})
    IN  IF i = 0 THEN <<css>>
        ELSE <<SubSeq(css, 1, i - 1)>> \o Sections(SubSeq(css, i + 1, Len(css)))

\* Pattern 3: latin sections only, first weight and first woff2 URL, rewritten to .ttf
RECURSIVE Pattern3(_, _)
Pattern3(sections, urls) ==
    IF sections = <<>> THEN urls
    ELSE LET sec == Head(sections)
             latin == (\A i \in DOMAIN sec : sec[i].k # "range")
                      \/ (\E i \in DOMAIN sec : sec[i].k = "range" /\ sec[i].latin)
             wi == FirstFrom(1, {n \in DOMAIN sec : sec[n].k = "weight"})
             ui == FirstFrom(1, {n \in DOMAIN sec : IsGstatic(sec[n], ".woff2")})
         IN  IF latin /\ wi # 0 /\ ui # 0
             THEN Pattern3(Tail(sections),
                           PushUnseen(urls, sec[wi].w, [id |-> sec[ui].id, ext |-> ".ttf"]))
             ELSE Pattern3(Tail(sections), urls)

\* a parser that adds up what the three patterns find, which C28 rules out
parseWithEveryPattern(css) ==
    Pattern1(css, 1, <<>>) \o Pattern2(css, 1, 0, <<>>) \o Pattern3(Sections(css), <<>>)

parseTTFUrlsFromCSS(css) ==
    LET p1 == Pattern1(css, 1, <<>>)
        p2 == IF p1 = <<>> THEN Pattern2(css, 1, 0, <<>>) ELSE p1
    IN  IF p2 = <<>> THEN Pattern3(Sections(css), <<>>) ELSE p2

\* manifests a server may answer with
CssTwo == << Face, Weight("400"), Src("r", "gstatic", ".ttf", TRUE),
             Face, Weight("700"), Src("b", "gstatic", ".ttf", TRUE) >>

CssOne == << Face, Weight("400"), Src("r", "gstatic", ".ttf", TRUE) >>

\* font-face declarations, but no URL any pattern accepts
CssNoUrls == << Face, Weight("400"), Src("r", "other", ".woff", FALSE) >>

\* a body without any font-face declaration
CssPlain == << >>


\* ------------------------------------------------------------- environment

\* what one fetchWithRetry of a font file ends with: a transport failure after the
\* last retry, a response that is not ok, or a body
Payload(size, font) == [size |-> size, font |-> font]

FontBodies == { Payload(500, FALSE), Payload(5000, TRUE),
                Payload(50000, TRUE), Payload(50000, FALSE) }

\* the outcome of a fetch: st is "throw", "http404" (response.ok is false) or "ok"
Outcome(st, body) == [st |-> st, body |-> body]

FontOutcomes(down) ==
    IF down THEN {Outcome("throw", Payload(0, FALSE))}
    ELSE {Outcome("throw", Payload(0, FALSE)), Outcome("http404", Payload(0, FALSE))}
         \cup {Outcome("ok", b) : b \in FontBodies}

\* what one fetchWithRetry of a manifest ends with
CssOutcomes(down, bodies) ==
    IF down THEN {Outcome("throw", <<>>)}
    ELSE {Outcome("throw", <<>>), Outcome("http404", <<>>)}
         \cup {Outcome("ok", b) : b \in bodies}

\* names and sources a caller passes
NameB == <<"B">>

NameBs == <<"B", ",", " ", "s">>

\* a generic family, not in lower case
NameSerif == <<"S", "e", "r", "i", "f">>

UrlTtf == <<"https://", "h", "/", "f", ".ttf">>

UrlCss == <<"https://", "h", "/", "f", ".css">>

\* /-[a-f0-9]{8}\.ttf$/i: the content-hash suffix of a file of the Docker build
HashSuffix == "-1a2b3c4d.ttf"

PrebuiltB == [name |-> <<"B", HashSuffix>>, font |-> TRUE]

\* ------------------------------------------------------------------- state

VARIABLES
    task,               \* the resolve() calls made so far, and where each one stands
    downloadedFonts,    \* Map fontName -> filePath
    failedFonts,        \* Set of fontName
    downloadingFonts,   \* Map fontName -> the call whose promise it holds
    cssCache,           \* Map cssUrl or cacheKey -> css text
    fontMetadataCache,  \* Map fontName -> { urls, timestamp }
    disk,               \* .fonts-cache: file name -> "font" or "junk"
    families,           \* GlobalFonts: the (path, alias) pairs registered
    memo,               \* identity -> what its last finished resolve() returned, or
                        \* "cleared" once clearFailedFonts has forgotten a failure
    registeredFonts,    \* server-renderer: Set of fontFamily
    fontFallbackMap,    \* server-renderer: Map fontFamily -> fallback family
    render,             \* the renderCanvasServerSide call, and where it stands
    now,                \* Date.now()
    env,                \* what the process runs in: the calls its clients make, the
                        \* manifests the servers hold, the pre-built fonts directory,
                        \* the network being down
    fetch,              \* one call of fetchWithRetry, and where it stands
    pool,               \* renderWorkerPool: its fields, its worker threads and the
                        \* messages between them, the promises run() has returned
    batch               \* the downloadFonts call, and where it stands

vars == << task, downloadedFonts, failedFonts, downloadingFonts, cssCache,
           fontMetadataCache, disk, families, memo, registeredFonts, fontFallbackMap,
           render, now, env, fetch, pool, batch >>

EmptyMap == [x \in {} |-> 0]

Put(m, k, v) == [x \in DOMAIN m \cup {k} |-> IF x = k THEN v ELSE m[x]]

Del(m, k) == [x \in DOMAIN m \ {k} |-> m[x]]

Has(m, k) == k \in DOMAIN m

PREBUILT_FONTS_DIR == <<"/usr/share/fonts/truetype/google-fonts">>

Calls == 1..MaxCalls

\* Besides the position of the call (pc, orig, cssIdx, urls, vs, body) a call
\* records what happened to it, for the properties to refer to:
\*   cold      every in-memory cache was empty when the call was made
\*   bare      the cache directory held no file when the call was made
\*   net       a network fetch was issued on its behalf
\*   stale     it found an expired entry in fontMetadataCache
\*   mnet      it issued the fetch of a manifest
\*   small     the files whose fetched payload was under the threshold of the tier
\*   junkSeen  the cached files it found that do not load as a font
\*   junkFixed those of them it unlinked and fetched again
\*   regs      the (file, alias) pairs it called GlobalFonts.registerFromPath with
\*   twice     those of them it called it with more than once
IdleTask ==
    [ fontName |-> <<>>, src |-> <<>>, pc |-> "idle", orig |-> 0, result |-> "pending",
      cssIdx |-> 0, urls |-> <<>>, vs |-> <<>>, body |-> FALSE,
      cold |-> FALSE, bare |-> FALSE, net |-> FALSE, stale |-> FALSE, mnet |-> FALSE, small |-> {},
      junkSeen |-> {}, junkFixed |-> {}, regs |-> {}, twice |-> {} ]

\* the identity of a request: the requested name without its CSS fallback list and
\* quotes, and whether the source is a URL
Identity(fontName, src) == <<StripQuotes(CleanFontName(fontName)), IsUrl(src)>>

\* the program state the code reads and writes, as one record
Pack ==
    [ task |-> task, d |-> downloadedFonts, failed |-> failedFonts,
      downloading |-> downloadingFonts, css |-> cssCache, meta |-> fontMetadataCache,
      disk |-> disk, families |-> families, memo |-> memo,
      registered |-> registeredFonts, fallback |-> fontFallbackMap, render |-> render ]

Unpack(next) ==
    \E s \in {next} :
        /\ task' = s.task
        /\ downloadedFonts' = s.d
        /\ failedFonts' = s.failed
        /\ downloadingFonts' = s.downloading
        /\ cssCache' = s.css
        /\ fontMetadataCache' = s.meta
        /\ disk' = s.disk
        /\ families' = s.families
        /\ memo' = s.memo
        /\ registeredFonts' = s.registered
        /\ fontFallbackMap' = s.fallback
        /\ render' = s.render

\* ------------------------------------------------------------------ facade

\* a facade that lets the error through, which C6 rules out
FacadeRethrow(outcome) == outcome

\* the catch of downloadAndRegisterFont: a throw becomes a failure
FacadeCatch(outcome) == IF outcome = "throw" THEN "false" ELSE outcome

\* a facade without its finally block: a throw leaves the in-flight handle behind,
\* which C22 rules out
SettleWithoutFinally(s, t, outcome) ==
    LET key == s.task[t].fontName
        settled == {u \in Calls : u = t \/ (s.task[u].pc = "attached" /\ s.task[u].orig = t)}
        res == FacadeCatch(outcome)
    IN  [ s EXCEPT
            !.failed = IF res = "false" THEN s.failed \cup {key} ELSE s.failed,
            !.downloading = IF outcome = "throw" THEN s.downloading ELSE Del(s.downloading, key),
            !.task = [ u \in Calls |->
                        IF u \in settled
                        THEN [ s.task[u] EXCEPT !.pc = "done", !.result = res ]
                        ELSE s.task[u] ] ]

\* downloadAndRegisterFont after the await of the tier: memoize a failure, drop the
\* in-flight handle, settle the promise and with it every caller that holds it
Settle(s, t, outcome) ==
    LET r == FacadeCatch(outcome)
        key == s.task[t].fontName
        settled == {u \in Calls : u = t \/ (s.task[u].pc = "attached" /\ s.task[u].orig = t)}
        res == IF r = "throw" THEN "rejected" ELSE r
    IN  [ s EXCEPT
            !.failed = IF r = "false" THEN s.failed \cup {key} ELSE s.failed,
            !.downloading = Del(s.downloading, key),
            !.task = [ u \in Calls |->
                        IF u \in settled
                        THEN [ s.task[u] EXCEPT !.pc = "done", !.result = res ]
                        ELSE s.task[u] ],
            !.memo = [ id \in DOMAIN s.memo
                              \cup {Identity(s.task[u].fontName, s.task[u].src) : u \in settled} |->
                        IF \E u \in settled : Identity(s.task[u].fontName, s.task[u].src) = id
                        THEN [result |-> res, by |-> key]
                        ELSE s.memo[id] ] ]


Live(tr) == tr.pc \notin {"idle", "attached", "done"}

\* the first call slot not in use
NextCall == CHOOSE t \in Calls \cup {MaxCalls + 1} :
                /\ t \in Calls => task[t].pc = "idle"
                /\ \A u \in Calls : u < t => task[u].pc # "idle"

\* downloadAndRegisterFont(fontName, fontUrlOrName) up to its first await
Resolve(s, t, fontName, src) ==
    LET id == Identity(fontName, src)
        tr == [IdleTask EXCEPT
                 !.fontName = fontName, !.src = src,
                 !.cold = /\ s.d = EmptyMap /\ s.failed = {} /\ s.downloading = EmptyMap
                          /\ s.css = EmptyMap /\ s.meta = EmptyMap,
                 !.bare = s.disk = EmptyMap]
        finished(r) ==
            [s EXCEPT !.task[t] = [tr EXCEPT !.pc = "done", !.result = r],
                      !.memo = IF IsGeneric(src) THEN s.memo
                               ELSE Put(s.memo, id, [result |-> r, by |-> fontName])]
    IN  IF IsGeneric(src) THEN finished("true")
        ELSE IF Has(s.d, fontName) THEN finished("true")
        ELSE IF fontName \in s.failed THEN finished("false")
        ELSE IF Has(s.downloading, fontName)
             THEN [s EXCEPT !.task[t] = [tr EXCEPT !.pc = "attached",
                                                   !.orig = s.downloading[fontName]]]
        ELSE [s EXCEPT !.task[t] = [tr EXCEPT !.pc = "mkdir"],
                       !.downloading = Put(s.downloading, fontName, t)]

\* ---------------------------------------------------------------- registry

\* GlobalFonts.registerFromPath throws on a file that does not load as a font
Loads(s, file) == Has(s.disk, file) /\ s.disk[file] = "font"

Register(s, t, path, alias) ==
    [s EXCEPT !.families = @ \cup {<<path, alias>>},
              !.task[t].twice = IF <<path, alias>> \in s.task[t].regs
                                THEN @ \cup {<<path, alias>>} ELSE @,
              !.task[t].regs = @ \cup {<<path, alias>>}]

\* ---------------------------------------------------------------- variants

\* the variant downloads of downloadGoogleFontDirect (source given by name) and of
\* downloadFontFromCSSUrl (source given as the URL of a manifest)

\* the fontName parameter of the function that downloads the variants
VariantAlias(tr) ==
    IF IsUrl(tr.src) THEN CleanFontName(tr.fontName) ELSE CleanFontName(tr.src)

VariantSafe(tr) ==
    IF IsUrl(tr.src) THEN SafeFilename(CleanFontName(tr.fontName))
    ELSE SafeFilename(StripQuotes(CleanFontName(tr.src)))

\* arrayBuffer.byteLength < 10000 (by name), < 1000 (by manifest URL)
VariantMin(tr) == IF IsUrl(tr.src) THEN MIN_CUSTOM_BYTES ELSE MIN_GOOGLE_BYTES

VariantFile(tr, i) == VariantPath(VariantSafe(tr), tr.urls[i].weight)

SetVariant(s, t, i, pc, font) ==
    [s EXCEPT !.task[t].vs = [j \in DOMAIN s.task[t].urls |->
                                IF j = i THEN [pc |-> pc, font |-> font]
                                ELSE IF j \in DOMAIN @ THEN @[j]
                                ELSE [pc |-> "new", font |-> FALSE]]]

IssueFetch(s, t) == [s EXCEPT !.task[t].net = TRUE]

\* one variant up to its first await: a cached file that loads is registered, one
\* that does not is unlinked, a missing one is fetched
VariantStart(s, t, i) ==
    LET tr == s.task[t]
        file == VariantFile(tr, i)
    IN  IF Has(s.disk, file)
        THEN IF Loads(s, file)
             THEN SetVariant(Register(s, t, file, VariantAlias(tr)), t, i, "ok", TRUE)
             ELSE SetVariant([s EXCEPT !.task[t].junkSeen = @ \cup {file}], t, i, "unlink", FALSE)
        ELSE SetVariant(IssueFetch(s, t), t, i, "fetch", FALSE)

RECURSIVE StartVariants(_, _, _)
StartVariants(s, t, i) ==
    IF i > Len(s.task[t].urls) THEN s
    ELSE StartVariants(VariantStart(s, t, i), t, i + 1)

AllSettled(tr) == \A i \in DOMAIN tr.urls : tr.vs[i].pc \in {"ok", "fail"}

\* a count that is zero as soon as one variant failed, which C30 rules out
SuccessCountOrNone(tr) ==
    IF \A i \in DOMAIN tr.urls : tr.vs[i].pc = "ok" THEN Len(tr.urls) ELSE 0

SuccessCount(tr) == Cardinality({i \in DOMAIN tr.urls : tr.vs[i].pc = "ok"})

\* downloadGoogleFont after downloadGoogleFontDirect returned: on success the source
\* name is memoized too and the cache directory is read to register the files under it
GooglePost(s, t, result) ==
    LET tr == s.task[t]
        clean == CleanFontName(tr.src)
    IN  IF result = "true" /\ Has(s.d, clean)
        THEN [s EXCEPT !.d = Put(s.d, tr.src, s.d[clean]),
                       !.task[t].pc = "readdirAlias"]
        ELSE Settle(s, t, result)

\* the code after Promise.allSettled / Promise.all
VariantsFinish(s, t) ==
    LET tr == s.task[t]
        path400 == VariantPath(VariantSafe(tr), "400")
        s1 == [s EXCEPT !.d = Put(s.d, VariantAlias(tr), path400)]
    IN  IF SuccessCount(tr) > 0
        THEN IF IsUrl(tr.src) THEN Settle(s1, t, "true") ELSE GooglePost(s1, t, "true")
        ELSE IF IsUrl(tr.src) THEN Settle(s, t, "false") ELSE GooglePost(s, t, "false")

AfterVariant(s, t) == IF AllSettled(s.task[t]) THEN VariantsFinish(s, t) ELSE s

\* mkdir of the cache directory is done: every variant runs up to its first await
VariantsBegin(s, t) ==
    AfterVariant(StartVariants([s EXCEPT !.task[t].pc = "variants"], t, 1), t)

\* unlink of a corrupt cached file is done (its errors are ignored): fetch it
VariantUnlinked(s, t, i) ==
    LET file == VariantFile(s.task[t], i)
    IN  SetVariant(IssueFetch([s EXCEPT !.disk = Del(s.disk, file),
                                        !.task[t].junkFixed = @ \cup {file}], t),
                   t, i, "fetch", FALSE)

\* a size guard that lets every payload through, which C11 rules out
PassesAnySize(body, min) == TRUE

\* does a fetched body pass the size guard of the variant
PassesSize(body, min) == body.size >= min

\* fetchWithRetry and arrayBuffer() of a variant are done
VariantFetched(s, t, i, outcome) ==
    LET min == VariantMin(s.task[t])
        s1 == IF outcome.body.size < min
              THEN [s EXCEPT !.task[t].small = @ \cup {VariantFile(s.task[t], i)}]
              ELSE s
    IN  IF outcome.st # "ok"
        THEN AfterVariant(SetVariant(s, t, i, "fail", FALSE), t)
        ELSE IF ~PassesSize(outcome.body, min)
             THEN AfterVariant(SetVariant(s1, t, i, "fail", FALSE), t)
             ELSE SetVariant(s1, t, i, "write", outcome.body.font)

\* writeFile of a variant is done: register the file
VariantWritten(s, t, i) ==
    LET tr == s.task[t]
        file == VariantFile(tr, i)
        s1 == [s EXCEPT !.disk = Put(s.disk, file, IF tr.vs[i].font THEN "font" ELSE "junk")]
    IN  IF Loads(s1, file)
        THEN AfterVariant(SetVariant(Register(s1, t, file, VariantAlias(tr)), t, i, "ok", TRUE), t)
        ELSE AfterVariant(SetVariant(s1, t, i, "fail", FALSE), t)

\* readdir of the cache directory is done: every .ttf file whose name starts with
\* the safe name is registered under the source name, errors ignored
RECURSIVE RegisterAll(_, _, _, _)
RegisterAll(s, t, files, alias) ==
    IF files = {} THEN s
    ELSE LET f == CHOOSE x \in files : TRUE
         IN  RegisterAll(IF Loads(s, f) THEN Register(s, t, f, alias) ELSE s, t,
                         files \ {f}, alias)

AliasFiles(s, safe) == {f \in DOMAIN s.disk : StartsWith(f, safe) /\ EndsWith(f, ".ttf")}

AliasDone(s, t) ==
    LET tr == s.task[t]
        safe == SafeFilename(CleanFontName(tr.src))
    IN  Settle(RegisterAll(s, t, AliasFiles(s, safe), tr.src), t, "true")


\* ------------------------------------------------------- named-source tier

\* the fetch of the next endpoint of fetchGoogleFontCSS is issued
CssEndpoints == 3

\* downloadGoogleFontDirect once the variant URLs are known: mkdir, then the variants
HaveUrls(s, t, urls) ==
    [s EXCEPT !.task[t].urls = urls, !.task[t].vs = <<>>, !.task[t].pc = "mkdirVariants"]

\* a tier that goes on to the next endpoint when the manifest in hand has no URL
\* for it, which C29 rules out
GotCssOrNextEndpoint(s, t, css) ==
    LET urls == parseTTFUrlsFromCSS(css)
        key == CleanFontName(s.task[t].src)
    IN  IF urls = <<>>
        THEN IF s.task[t].cssIdx < CssEndpoints
             THEN IssueFetch([s EXCEPT !.task[t].pc = "fetchCss", !.task[t].cssIdx = @ + 1], t)
             ELSE GooglePost(s, t, "false")
        ELSE HaveUrls([s EXCEPT !.meta = Put(s.meta, key, [urls |-> urls, timestamp |-> now])],
                      t, urls)

\* downloadGoogleFontDirect with the manifest text in hand
GotCss(s, t, css) ==
    LET urls == parseTTFUrlsFromCSS(css)
        key == CleanFontName(s.task[t].src)
    IN  IF urls = <<>> THEN GooglePost(s, t, "false")
        ELSE HaveUrls([s EXCEPT !.meta = Put(s.meta, key, [urls |-> urls, timestamp |-> now])],
                      t, urls)

\* age < CACHE_TTL
Fresh(entry, time) == time - entry.timestamp < CACHE_TTL

\* fetchGoogleFontCSS up to its first await: the cached text, or the first endpoint
FetchCss(s, t) ==
    LET fontFamily == ReplaceBlankRuns(StripQuotes(CleanFontName(s.task[t].src)), "+")
        cacheKey == CssCacheKey(fontFamily)
    IN  IF Has(s.css, cacheKey) THEN GotCss(s, t, s.css[cacheKey])
        ELSE IssueFetch([s EXCEPT !.task[t].pc = "fetchCss", !.task[t].cssIdx = 1,
                                  !.task[t].mnet = TRUE], t)

\* downloadGoogleFontDirect up to its first await: the metadata cache, then the manifest
DirectStart(s, t) ==
    LET key == CleanFontName(s.task[t].src)
    IN  IF Has(s.meta, key)
        THEN IF Fresh(s.meta[key], now)
             THEN HaveUrls(s, t, s.meta[key].urls)
             ELSE FetchCss([s EXCEPT !.meta = Del(s.meta, key), !.task[t].stale = TRUE], t)
        ELSE FetchCss(s, t)

\* fetchWithRetry and text() of one endpoint are done
CssFetched(s, t, outcome) ==
    LET tr == s.task[t]
        fontFamily == ReplaceBlankRuns(StripQuotes(CleanFontName(tr.src)), "+")
    IN  IF outcome.st = "ok" /\ HasFontFace(outcome.body)
        THEN GotCss([s EXCEPT !.css = Put(s.css, CssCacheKey(fontFamily), outcome.body)],
                    t, outcome.body)
        ELSE IF tr.cssIdx < CssEndpoints
             THEN IssueFetch([s EXCEPT !.task[t].cssIdx = @ + 1], t)
             ELSE GooglePost(s, t, "false")

\* file.replace(/-[a-f0-9]{8}\.ttf$/i, '')
FileBasename(file) ==
    IF EndsWith(file, HashSuffix) THEN SubSeq(file, 1, Len(file) - 1) ELSE file

\* the files of the pre-built directory that tryLoadPrebuiltFont takes for fontName
PrebuiltMatches(files, fontName) ==
    { f \in files :
        /\ ToLower(FileBasename(f.name)) = ToLower(ReplaceBlankRuns(fontName, "-"))
        /\ (EndsWith(f.name, HashSuffix) \/ EndsWith(f.name, ".ttf")) }

\* readdir of the pre-built directory is done: register the matching files; with
\* none registered go on to downloadGoogleFontDirect
PrebuiltDone(s, t) ==
    LET tr == s.task[t]
        clean == CleanFontName(tr.src)
        good == {f \in PrebuiltMatches(env.prebuilt.files, clean) : f.font}
        pairs == {<<PREBUILT_FONTS_DIR \o f.name, clean>> : f \in good}
        s1 == [s EXCEPT !.families = @ \cup pairs, !.task[t].regs = @ \cup pairs]
        s2 == [s1 EXCEPT !.d = Put(s1.d, clean, PREBUILT_FONTS_DIR)]
    IN  IF good # {}
        THEN Settle([s2 EXCEPT !.d = Put(s2.d, tr.src, PREBUILT_FONTS_DIR)], t, "true")
        ELSE DirectStart(s, t)

\* downloadGoogleFont up to its first await
GoogleStart(s, t) ==
    LET tr == s.task[t]
    IN  IF Has(s.d, tr.src) \/ Has(s.d, CleanFontName(tr.src))
        THEN Settle(s, t, "true")
        ELSE IF env.prebuilt.exists
             THEN [s EXCEPT !.task[t].pc = "readdirPrebuilt"]
             ELSE DirectStart(s, t)

\* --------------------------------------------------------- URL-source tier

\* downloadFontFromCSSUrl with the manifest text in hand
CssUrlGot(s, t, css) ==
    LET urls == parseTTFUrlsFromCSS(css)
    IN  IF urls = <<>> THEN Settle(s, t, "false") ELSE HaveUrls(s, t, urls)

\* downloadFontFromCSSUrl up to its first await
CssUrlStart(s, t) ==
    LET url == s.task[t].src
    IN  IF Has(s.css, url) THEN CssUrlGot(s, t, s.css[url])
        ELSE IssueFetch([s EXCEPT !.task[t].pc = "fetchCssUrl", !.task[t].mnet = TRUE], t)

\* fetchWithRetry and text() of the manifest URL are done
CssUrlFetched(s, t, outcome) ==
    IF outcome.st # "ok" THEN Settle(s, t, "false")
    ELSE CssUrlGot([s EXCEPT !.css = Put(s.css, s.task[t].src, outcome.body)], t, outcome.body)

CustomFile(tr) == CustomPath(SafeFilename(CleanFontName(tr.fontName)), UrlExt(tr.src))

\* a cached file that does not load makes registerFromPath throw into the catch
\* of downloadCustomFont
CustomCached(s, t) ==
    LET tr == s.task[t]
        file == CustomFile(tr)
        clean == CleanFontName(tr.fontName)
        s1 == Register(s, t, file, clean)
    IN  IF Loads(s, file)
        THEN Settle([s1 EXCEPT !.d = Put(Put(s.d, tr.fontName, file), clean, file)], t, "true")
        ELSE Settle(s, t, "false")

\* downloadCustomFont up to its first await
CustomStart(s, t) ==
    LET tr == s.task[t]
    IN  IF IsCssUrl(tr.src) THEN CssUrlStart(s, t)
        ELSE IF Has(s.disk, CustomFile(tr))
             THEN CustomCached(IF Loads(s, CustomFile(tr)) THEN s
                               ELSE [s EXCEPT !.task[t].junkSeen = @ \cup {CustomFile(tr)}], t)
        ELSE IssueFetch([s EXCEPT !.task[t].pc = "fetchCustom"], t)

\* a tier that a fetch out of retries leaves hanging, which C25 rules out
CustomFetchedOrHangs(s, t, outcome) ==
    IF outcome.st = "throw" THEN [s EXCEPT !.task[t].pc = "hung"]
    ELSE IF outcome.st # "ok" \/ outcome.body.size < MIN_CUSTOM_BYTES THEN Settle(s, t, "false")
    ELSE [s EXCEPT !.task[t].pc = "writeCustom", !.task[t].body = outcome.body.font]

\* fetchWithRetry and arrayBuffer() of the font URL are done
CustomFetched(s, t, outcome) ==
    LET s1 == IF outcome.body.size < MIN_CUSTOM_BYTES
              THEN [s EXCEPT !.task[t].small = @ \cup {CustomFile(s.task[t])}]
              ELSE s
    IN  IF outcome.st # "ok" THEN Settle(s, t, "false")
        ELSE IF ~PassesSize(outcome.body, MIN_CUSTOM_BYTES) THEN Settle(s1, t, "false")
        ELSE [s1 EXCEPT !.task[t].pc = "writeCustom", !.task[t].body = outcome.body.font]

\* writeFile of the font is done: register it and memoize both names
CustomWritten(s, t) ==
    LET tr == s.task[t]
        file == CustomFile(tr)
        s1 == [s EXCEPT !.disk = Put(s.disk, file, IF tr.body THEN "font" ELSE "junk")]
    IN  CustomCached(s1, t)


\* ---------------------------------------------------------------- renderer

\* a family that getFallbackFont knows
RobotoMono == <<"R", "o", "b", "o", "t", "o", " ", "M", "o", "n", "o">>

getFallbackFont(fontFamily) ==
    LET Roboto == <<"R", "o", "b", "o", "t", "o">>
        Montserrat == <<"M", "o", "n", "t", "s", "e", "r", "r", "a", "t">>
        Inter == <<"I", "n", "t", "e", "r">>
        OpenSans == <<"O", "p", "e", "n", " ", "S", "a", "n", "s">>
        Lato == <<"L", "a", "t", "o">>
        Poppins == <<"P", "o", "p", "p", "i", "n", "s">>
        Raleway == <<"R", "a", "l", "e", "w", "a", "y">>
        PlayfairDisplay == <<"P", "l", "a", "y", "f", "a", "i", "r", " ",
                             "D", "i", "s", "p", "l", "a", "y">>
        Merriweather == <<"M", "e", "r", "r", "i", "w", "e", "a", "t", "h", "e", "r">>
        SourceCodePro == <<"S", "o", "u", "r", "c", "e", " ", "C", "o", "d", "e", " ",
                           "P", "r", "o">>
    IN  IF fontFamily \in {PlayfairDisplay, Merriweather} THEN <<"Liberation Serif">>
        ELSE IF fontFamily \in {RobotoMono, SourceCodePro} THEN <<"Liberation Mono">>
        ELSE IF fontFamily \in {Roboto, Montserrat, Inter, OpenSans, Lato, Poppins, Raleway}
             THEN <<"Liberation Sans">>
        ELSE <<"Liberation Sans">>

\* no render is asked for
NoRender == [pc |-> "idle", doc |-> <<>>]

\* the families of the spans, each once: the Set fontFamilies in insertion order
RECURSIVE Unique(_)
Unique(doc) ==
    IF doc = <<>> THEN <<>>
    ELSE LET rest == Unique(SubSeq(doc, 1, Len(doc) - 1))
             last == doc[Len(doc)]
         IN  IF last \in Range(rest) THEN rest ELSE Append(rest, last)

\* one call of registerFont: pc is "import" or "resolve" while it awaits, and what
\* it returned after ("true", "false"), or "rejected" had it thrown
Inst(fontFamily, pc, call) == [fontFamily |-> fontFamily, pc |-> pc, call |-> call]

InstReturned(inst) == inst.pc \in {"true", "false", "rejected"}

\* registerFont returns r; the render remembers the families it returned false for
Returned(s, i, r) ==
    [s EXCEPT !.render.inst[i].pc = r,
              !.render.failed = IF r = "false" THEN @ \cup {s.render.inst[i].fontFamily}
                                ELSE @]

\* a registerFont that gives up without recording a fallback, which C7 rules out
UseNoFallback(s, fontFamily) == s

\* registerFont where it gives up on the family: the fallback is recorded
UseFallback(s, fontFamily) ==
    [s EXCEPT !.fallback = Put(s.fallback, fontFamily, getFallbackFont(fontFamily))]

\* the catch of registerFont
RegisterFontCatch(s, i) ==
    Returned(UseFallback(s, s.render.inst[i].fontFamily), i, "false")

\* registerFont(fontFamily) up to its first await
RegisterFontStart(s, i, fontFamily) ==
    LET s1 == [s EXCEPT !.render.inst[i] = Inst(fontFamily, "import", 0)]
    IN  IF fontFamily \in s.registered THEN Returned(s1, i, "true")
        ELSE IF \E p \in s.families : p[2] = fontFamily
             THEN Returned([s1 EXCEPT !.registered = @ \cup {fontFamily}], i, "true")
        ELSE s1

RECURSIVE RegisterFontStartAll(_, _, _)
RegisterFontStartAll(s, fams, i) ==
    IF i > Len(fams) THEN s
    ELSE RegisterFontStartAll(RegisterFontStart(s, i, fams[i]), fams, i + 1)

\* renderCanvasServerSide up to its first await: registerFont of every family of
\* the spans and of every key of the fonts object, in parallel
Preload(s, doc, fonts) ==
    LET fams == Unique(doc \o [i \in DOMAIN fonts |-> fonts[i][1]])
        s1 == [s EXCEPT !.render =
                 [ pc |-> "preload", doc |-> doc, fonts |-> fonts, span |-> 0,
                   inst |-> [i \in 1..Len(fams) |-> Inst(fams[i], "import", 0)],
                   failed |-> {}, drawn |-> <<>>, placeholder |-> FALSE, image |-> FALSE ]]
    IN  RegisterFontStartAll(s1, fams, 1)

\* the dynamic import of the loader is done: downloadAndRegisterFont(fontFamily,
\* fontFamily) is called and awaited
RegisterFontImported(s, i, t, ok) ==
    LET fontFamily == s.render.inst[i].fontFamily
        s1 == Resolve(s, t, fontFamily, fontFamily)
    IN  IF ~ok THEN RegisterFontCatch(s, i)
        ELSE [s1 EXCEPT !.render.inst[i].pc = "resolve", !.render.inst[i].call = t]

\* the promise of downloadAndRegisterFont is settled; the call is over and its slot
\* is free again
RegisterFontResolved(s, i) ==
    LET inst == s.render.inst[i]
        r == s.task[inst.call].result
        s1 == [s EXCEPT !.task[inst.call] = IdleTask]
    IN  IF r = "rejected" THEN RegisterFontCatch(s1, i)
        ELSE IF r = "false" THEN Returned(UseFallback(s1, inst.fontFamily), i, "false")
        ELSE Returned([s1 EXCEPT !.registered = @ \cup {inst.fontFamily}], i, "true")

\* renderTextObject at span k: registerFont(fontFamily) up to its first await; past
\* the last span the canvas is encoded
SpanBegin(s, k) ==
    IF k > Len(s.render.doc)
    THEN [s EXCEPT !.render.pc = "done", !.render.image = TRUE, !.render.inst = <<>>]
    ELSE RegisterFontStart([s EXCEPT !.render.pc = "span", !.render.span = k,
                                     !.render.inst = <<Inst(s.render.doc[k], "import", 0)>>],
                           1, s.render.doc[k])

\* Promise.all of the preload is settled: a rejection leaves renderCanvasServerSide,
\* otherwise the components are drawn
Preloaded(s) ==
    IF \E i \in DOMAIN s.render.inst : s.render.inst[i].pc = "rejected"
    THEN [s EXCEPT !.render.pc = "failed"]
    ELSE SpanBegin(s, 1)

\* registerFont of the span has returned: the span is drawn with the fallback of
\* its family if there is one; an error goes to the catch around the component,
\* which draws the placeholder
SpanRegistered(s) ==
    LET fontFamily == s.render.doc[s.render.span]
        used == IF Has(s.fallback, fontFamily) THEN s.fallback[fontFamily] ELSE fontFamily
    IN  IF s.render.inst[1].pc = "rejected"
        THEN [s EXCEPT !.render.pc = "done", !.render.image = TRUE,
                       !.render.placeholder = TRUE, !.render.inst = <<>>]
        ELSE SpanBegin([s EXCEPT !.render.drawn = Append(@, used)], s.render.span + 1)

\* ----------------------------------------------------------------- actions

Call ==
    /\ NextCall <= MaxCalls
    /\ \E a \in env.universe : Unpack(Resolve(Pack, NextCall, a[1], a[2]))
    /\ UNCHANGED <<now, env, fetch, pool, batch>>

\* the tier pipeline starts once the cache directory is made; mkdir failing throws
\* into the catch of downloadAndRegisterFont. mkdir with recursive: true succeeds on
\* a directory that exists, and the directory exists when it holds a file.
Dispatch(s, t, ok) ==
    IF ~ok THEN Settle(s, t, "throw")
    ELSE IF IsUrl(s.task[t].src) THEN CustomStart(s, t)
    ELSE GoogleStart(s, t)

MkdirDone(t) ==
    /\ task[t].pc = "mkdir"
    /\ \E ok \in (IF disk = EmptyMap THEN BOOLEAN ELSE {TRUE}) : Unpack(Dispatch(Pack, t, ok))
    /\ UNCHANGED <<now, env, fetch, pool, batch>>

ReaddirPrebuiltDone(t) ==
    /\ task[t].pc = "readdirPrebuilt"
    /\ Unpack(PrebuiltDone(Pack, t))
    /\ UNCHANGED <<now, env, fetch, pool, batch>>

CssFetchDone(t) ==
    /\ task[t].pc = "fetchCss"
    /\ \E o \in CssOutcomes(env.netDown, env.manifests) : Unpack(CssFetched(Pack, t, o))
    /\ UNCHANGED <<now, env, fetch, pool, batch>>

MkdirVariantsDone(t) ==
    /\ task[t].pc = "mkdirVariants"
    /\ Unpack(VariantsBegin(Pack, t))
    /\ UNCHANGED <<now, env, fetch, pool, batch>>

VariantUnlinkDone(t, i) ==
    /\ task[t].pc = "variants"
    /\ i \in DOMAIN task[t].vs
    /\ task[t].vs[i].pc = "unlink"
    /\ Unpack(VariantUnlinked(Pack, t, i))
    /\ UNCHANGED <<now, env, fetch, pool, batch>>

VariantFetchDone(t, i) ==
    /\ task[t].pc = "variants"
    /\ i \in DOMAIN task[t].vs
    /\ task[t].vs[i].pc = "fetch"
    /\ \E o \in FontOutcomes(env.netDown) : Unpack(VariantFetched(Pack, t, i, o))
    /\ UNCHANGED <<now, env, fetch, pool, batch>>

VariantWriteDone(t, i) ==
    /\ task[t].pc = "variants"
    /\ i \in DOMAIN task[t].vs
    /\ task[t].vs[i].pc = "write"
    /\ Unpack(VariantWritten(Pack, t, i))
    /\ UNCHANGED <<now, env, fetch, pool, batch>>

ReaddirAliasDone(t) ==
    /\ task[t].pc = "readdirAlias"
    /\ Unpack(AliasDone(Pack, t))
    /\ UNCHANGED <<now, env, fetch, pool, batch>>

CssUrlFetchDone(t) ==
    /\ task[t].pc = "fetchCssUrl"
    /\ \E o \in CssOutcomes(env.netDown, env.manifests) : Unpack(CssUrlFetched(Pack, t, o))
    /\ UNCHANGED <<now, env, fetch, pool, batch>>

CustomFetchDone(t) ==
    /\ task[t].pc = "fetchCustom"
    /\ \E o \in FontOutcomes(env.netDown) : Unpack(CustomFetched(Pack, t, o))
    /\ UNCHANGED <<now, env, fetch, pool, batch>>

CustomWriteDone(t) ==
    /\ task[t].pc = "writeCustom"
    /\ Unpack(CustomWritten(Pack, t))
    /\ UNCHANGED <<now, env, fetch, pool, batch>>

clearMemoryCache ==
    /\ cssCache # EmptyMap \/ fontMetadataCache # EmptyMap
    /\ cssCache' = EmptyMap
    /\ fontMetadataCache' = EmptyMap
    /\ UNCHANGED <<task, downloadedFonts, failedFonts, downloadingFonts, disk, families,
                   memo, registeredFonts, fontFallbackMap, render, now, env, fetch, pool, batch>>

\* a clearing of the failures that also drops the in-flight handles, which C16
\* rules out
clearFailedFontsAndHandles ==
    /\ failedFonts # {}
    /\ failedFonts' = {}
    /\ downloadingFonts' = EmptyMap
    /\ memo' = [id \in DOMAIN memo |->
                    IF memo[id].result = "false" THEN [memo[id] EXCEPT !.result = "cleared"]
                    ELSE memo[id]]
    /\ UNCHANGED <<task, downloadedFonts, cssCache, fontMetadataCache,
                   disk, families, registeredFonts, fontFallbackMap, render, now, env, fetch, pool, batch>>

clearFailedFonts ==
    /\ failedFonts # {}
    /\ failedFonts' = {}
    /\ memo' = [id \in DOMAIN memo |->
                    IF memo[id].result = "false" THEN [memo[id] EXCEPT !.result = "cleared"]
                    ELSE memo[id]]
    /\ UNCHANGED <<task, downloadedFonts, downloadingFonts, cssCache, fontMetadataCache,
                   disk, families, registeredFonts, fontFallbackMap, render, now, env, fetch, pool, batch>>

\* the requests: a document (the families of the spans of a text component) and a
\* fonts object (family and value, in key order); every document without a fonts
\* object, and one with a family bound to a URL
Requests ==
    LET Docs == { <<NameB>>, <<NameB, NameBs>>, <<RobotoMono>> }
    IN  { <<doc, <<>>>> : doc \in Docs } \cup { << <<NameB>>, << <<NameB, UrlTtf>> >> >> }

Rendering == render.pc \in {"preload", "span"}

renderCanvasServerSide ==
    /\ render.pc = "idle"
    /\ \E r \in Requests : Unpack(Preload(Pack, r[1], r[2]))
    /\ UNCHANGED <<now, env, fetch, pool, batch>>

ImportDone(i) ==
    /\ Rendering
    /\ i \in DOMAIN render.inst
    /\ render.inst[i].pc = "import"
    /\ NextCall <= MaxCalls
    /\ \E ok \in BOOLEAN : Unpack(RegisterFontImported(Pack, i, NextCall, ok))
    /\ UNCHANGED <<now, env, fetch, pool, batch>>

ResolveDone(i) ==
    /\ Rendering
    /\ i \in DOMAIN render.inst
    /\ render.inst[i].pc = "resolve"
    /\ task[render.inst[i].call].pc = "done"
    /\ Unpack(RegisterFontResolved(Pack, i))
    /\ UNCHANGED <<now, env, fetch, pool, batch>>

PreloadDone ==
    /\ render.pc = "preload"
    /\ \A i \in DOMAIN render.inst : InstReturned(render.inst[i])
    /\ Unpack(Preloaded(Pack))
    /\ UNCHANGED <<now, env, fetch, pool, batch>>

SpanDone ==
    /\ render.pc = "span"
    /\ InstReturned(render.inst[1])
    /\ Unpack(SpanRegistered(Pack))
    /\ UNCHANGED <<now, env, fetch, pool, batch>>

\* time passes
Tick ==
    /\ now < MaxTime
    /\ now' = now + 1
    /\ UNCHANGED <<task, downloadedFonts, failedFonts, downloadingFonts, cssCache,
                   fontMetadataCache, disk, families, memo, registeredFonts,
                   fontFallbackMap, render, env, fetch, pool, batch>>

\* ----------------------------------------------------------- specification

NoPrebuilt == [exists |-> FALSE, files |-> {}]

Env(universe, manifests, prebuilt, netDown) ==
    [universe |-> universe, manifests |-> manifests, prebuilt |-> prebuilt, netDown |-> netDown]

\* one family asked for by name under two spellings
EnvsTwoNames ==
    { Env({<<NameB, NameB>>, <<NameBs, NameBs>>}, {CssPlain, CssNoUrls, CssOne}, p, down) :
        p \in {NoPrebuilt, [exists |-> TRUE, files |-> {PrebuiltB}]}, down \in BOOLEAN }

\* one family asked for by name, with manifests of up to two variants
EnvsOneName ==
    { Env({<<NameB, NameB>>}, {CssNoUrls, CssOne, CssTwo}, NoPrebuilt, down) : down \in BOOLEAN }

\* one font file asked for by URL under two spellings of the family
EnvsFontUrl ==
    { Env({<<NameB, UrlTtf>>, <<NameBs, UrlTtf>>}, {}, NoPrebuilt, down) : down \in BOOLEAN }

\* one family asked for by the URL of a manifest
EnvsCssUrl ==
    { Env({<<NameBs, UrlCss>>}, {CssNoUrls, CssOne, CssTwo}, NoPrebuilt, down) : down \in BOOLEAN }

Envs == EnvsTwoNames \cup EnvsOneName \cup EnvsFontUrl \cup EnvsCssUrl

\* what .fonts-cache may hold when the process starts: nothing, or a file of the
\* family left by an earlier process, whole or truncated
InitialDisks(e) ==
    LET file == IF e \in EnvsFontUrl THEN CustomPath(NameB, ".ttf") ELSE VariantPath(NameB, "400")
    IN  { EmptyMap, [f \in {file} |-> "font"], [f \in {file} |-> "junk"] }

\* no call of fetchWithRetry is being followed
NoFetch == [pc |-> "idle", retries |-> 0, i |-> 0, log |-> <<>>, waits |-> <<>>]

\* a process that has just started
Started ==
    /\ task = [t \in Calls |-> IdleTask]
    /\ downloadedFonts = EmptyMap
    /\ failedFonts = {}
    /\ downloadingFonts = EmptyMap
    /\ cssCache = EmptyMap
    /\ fontMetadataCache = EmptyMap
    /\ families = {}
    /\ memo = EmptyMap
    /\ registeredFonts = {}
    /\ fontFallbackMap = EmptyMap
    /\ now = 0
    /\ pool = [ workers |-> [i \in 1..PoolSize |-> i], activeTasks |-> {}, nextTaskId |-> 0,
                promise |-> <<>>, up |-> [w \in 1..PoolSize |-> TRUE],
                inbox |-> [w \in 1..PoolSize |-> {}], mail |-> {}, exits |-> {} ]
    /\ batch = [pc |-> "idle", fonts |-> <<>>, pushed |-> {}, success |-> <<>>, failed |-> <<>>]

Init ==
    /\ Started
    /\ fetch = NoFetch
    /\ env \in Envs
    /\ disk \in InitialDisks(env)
    /\ render = NoRender

Next ==
    \/ Call
    \/ \E t \in Calls : MkdirDone(t)
    \/ \E t \in Calls : ReaddirPrebuiltDone(t)
    \/ \E t \in Calls : CssFetchDone(t)
    \/ \E t \in Calls : MkdirVariantsDone(t)
    \/ \E t \in Calls, i \in 1..2 : VariantUnlinkDone(t, i)
    \/ \E t \in Calls, i \in 1..2 : VariantFetchDone(t, i)
    \/ \E t \in Calls, i \in 1..2 : VariantWriteDone(t, i)
    \/ \E t \in Calls : ReaddirAliasDone(t)
    \/ \E t \in Calls : CssUrlFetchDone(t)
    \/ \E t \in Calls : CustomFetchDone(t)
    \/ \E t \in Calls : CustomWriteDone(t)
    \/ clearMemoryCache
    \/ clearFailedFonts

Spec == Init /\ [][Next]_vars

\* the same program with the clock running
SpecTTL == Init /\ [][Next \/ Tick]_vars


\* a render of one document, with the loader behind it
EnvsRender ==
    { Env({}, {CssNoUrls, CssOne}, p, down) :
        p \in {NoPrebuilt, [exists |-> TRUE, files |-> {PrebuiltB}]}, down \in BOOLEAN }

InitRender ==
    /\ Started
    /\ fetch = NoFetch
    /\ env \in EnvsRender
    /\ disk \in InitialDisks(env)
    /\ render = NoRender

NextRender ==
    \/ renderCanvasServerSide
    \/ \E i \in 1..2 : ImportDone(i)
    \/ \E i \in 1..2 : ResolveDone(i)
    \/ PreloadDone
    \/ SpanDone
    \/ \E t \in Calls : MkdirDone(t)
    \/ \E t \in Calls : ReaddirPrebuiltDone(t)
    \/ \E t \in Calls : CssFetchDone(t)
    \/ \E t \in Calls : MkdirVariantsDone(t)
    \/ \E t \in Calls, i \in 1..2 : VariantUnlinkDone(t, i)
    \/ \E t \in Calls, i \in 1..2 : VariantFetchDone(t, i)
    \/ \E t \in Calls, i \in 1..2 : VariantWriteDone(t, i)
    \/ \E t \in Calls : ReaddirAliasDone(t)
    \/ clearMemoryCache
    \/ clearFailedFonts

SpecRender == InitRender /\ [][NextRender]_vars

\* ------------------------------------------------------------------ claims

\* the identity of the request of call t
CallId(t) == Identity(task[t].fontName, task[t].src)

\* the step is resolve() being called, the call taking slot t
IsCall(t) == task[t].pc = "idle" /\ task'[t].pc # "idle"

\* what the call of this step returned at once, if it did
ReturnedAtOnce(t, r) == task'[t].pc = "done" /\ task'[t].result = r

\* the name an identity is recorded under in downloadedFonts and failedFonts
Norm(k) == StripQuotes(CleanFontName(k))

\* C1: of the calls of resolve() for one identity at most one runs the tier pipeline
\* (has fetched from the network and is not settled) at any time; the others are
\* attached to its handle.
C1_OneLiveExecutionPerIdentity ==
    \A t, u \in Calls :
        (t # u /\ Live(task[t]) /\ task[t].net /\ Live(task[u]) /\ task[u].net)
            => CallId(t) # CallId(u)

\* C2: requested names that normalize to the same name, with the same kind of
\* source, are one identity: a call made while a call of that identity under
\* another requested name runs attaches to that execution, and a call made after
\* one under another requested name has finished returns at once what that one
\* returned.
C2_NormalizedNameIsIdentity ==
    [][\A t \in Calls : IsCall(t) =>
        LET name == task'[t].fontName
            id == Identity(name, task'[t].src)
            live == {u \in Calls : Live(task[u]) /\ CallId(u) = id}
        IN  /\ \A u \in live : task[u].fontName # name
                    => (task'[t].pc = "attached" /\ task'[t].orig = u)
            /\ (live = {} /\ Has(memo, id) /\ memo[id].by # name
                    /\ memo[id].result # "cleared")
                    => ReturnedAtOnce(t, memo[id].result)]_vars

\* C3: once resolve() has returned false for an identity, and until clearFailedFonts
\* is called, every resolve() for that identity returns false at once, with no
\* fetch issued.
C3_FailureIsMemoized ==
    [][\A t \in Calls : IsCall(t) =>
        LET id == Identity(task'[t].fontName, task'[t].src)
        IN  (Has(memo, id) /\ memo[id].result = "false")
                => (ReturnedAtOnce(t, "false") /\ ~task'[t].net)]_vars

\* C4: once resolve() has returned true for a requested name and source, every
\* later resolve() with the same arguments returns true at once: no new in-flight
\* handle, no tier run again.
C4_SuccessIsTerminal ==
    [][\A t \in Calls : IsCall(t) =>
        LET id == Identity(task'[t].fontName, task'[t].src)
        IN  (Has(memo, id) /\ memo[id].result = "true" /\ memo[id].by = task'[t].fontName)
                => (ReturnedAtOnce(t, "true") /\ ~Has(downloadingFonts', task'[t].fontName))]_vars

\* C5: no family is recorded both in downloadedFonts and in failedFonts.
C5_SuccessAndFailureDisjoint ==
    {Norm(k) : k \in DOMAIN downloadedFonts} \cap {Norm(k) : k \in failedFonts} = {}

\* C6: resolve() never raises: no call, and no waiter attached to the promise of
\* another, ends rejected; and a call that ends false after waiting for a tier
\* leaves its requested name in failedFonts.
C6_ResolveNeverRaises ==
    /\ [](\A t \in Calls : task[t].result # "rejected")
    /\ [][\A t \in Calls :
            (task[t].pc \notin {"idle", "done"} /\ task'[t].pc = "done"
                /\ task'[t].result = "false")
                => task'[t].fontName \in failedFonts']_vars

\* mkdir of the cache directory failed under the first call, with a second call
\* attached to its promise: both got false
C6_Witness ==
    /\ task[1].pc = "done" /\ task[1].result = "false"
    /\ task[1].cold /\ ~task[1].net /\ task[1].junkSeen = {}
    /\ task[2].pc = "done" /\ task[2].orig = 1 /\ task[2].result = "false"
    /\ task[1].fontName \in failedFonts

\* C7: a render does not fail for a font: for every family whose registerFont
\* returned false a fallback family is recorded, every span of such a family is
\* drawn with that fallback, no component is replaced by the error placeholder, and
\* the render ends with an image of all spans.
C7_RenderSurvivesFontFailure ==
    /\ render.pc # "failed"
    /\ render.pc # "idle" =>
        /\ ~render.placeholder
        /\ \A f \in render.failed :
                Has(fontFallbackMap, f) /\ fontFallbackMap[f] = getFallbackFont(f)
        /\ \A k \in DOMAIN render.drawn :
                render.doc[k] \in render.failed
                    => render.drawn[k] = getFallbackFont(render.doc[k])
        /\ render.pc = "done" => (render.image /\ Len(render.drawn) = Len(render.doc))

\* a render is over, with an image, and a family that could not be resolved was
\* drawn with its fallback
C7_Witness ==
    /\ render.pc = "done" /\ render.image
    /\ \E k \in DOMAIN render.doc :
            /\ render.doc[k] \in render.failed
            /\ render.drawn[k] = getFallbackFont(render.doc[k])
            /\ render.drawn[k] # render.doc[k]

\* the file a call reuses from the cache directory: the font of a URL, or the
\* regular variant of a family
CachedFile(tr) ==
    IF IsUrl(tr.src) /\ ~IsCssUrl(tr.src) THEN CustomFile(tr)
    ELSE VariantPath(VariantSafe(tr), "400")

\* C8: with a file in the cache directory that loads as a font, every fetch
\* throwing and the in-memory caches empty, resolve() returns true.
C8_DiskFirst ==
    \A t \in Calls :
        (/\ task[t].pc = "done" /\ task[t].cold /\ env.netDown
         /\ Has(disk, CachedFile(task[t])) /\ disk[CachedFile(task[t])] = "font")
            => task[t].result = "true"

\* C9: a resolution by name that finds an entry of fontMetadataCache older than
\* CACHE_TTL fetches the manifest from the network.
C9_ExpiredEntryForcesFetch ==
    \A t \in Calls : task[t].stale => task[t].mnet

\* C10: every cached file a resolution found that does not load as a font has
\* been unlinked and fetched again by the time the resolution ends.
C10_CorruptFileRepaired ==
    \A t \in Calls : task[t].pc = "done" => task[t].junkSeen \subseteq task[t].junkFixed

\* C11: a payload under the byte threshold of its tier is not written and not
\* registered: its variant ends failed (a font fetched from a URL ends the
\* resolution with false); the resolution ends only when every variant has ended,
\* and with true exactly when one of them was registered.
C11_SizeGuard ==
    \A t \in Calls :
        LET tr == task[t]
        IN  /\ \A i \in DOMAIN tr.vs :
                    VariantFile(tr, i) \in tr.small => tr.vs[i].pc = "fail"
            /\ (tr.vs = <<>> /\ tr.small # {}) => (tr.pc = "done" /\ tr.result = "false")
            /\ (tr.pc = "done" /\ tr.vs # <<>>)
                    => (AllSettled(tr) /\ (tr.result = "true" <=> SuccessCount(tr) > 0))

\* a resolution has ended with true although the payload of one of its variants
\* was under the threshold
C11_Witness ==
    \E t \in Calls :
        /\ task[t].pc = "done" /\ task[t].result = "true"
        /\ \E i, j \in DOMAIN task[t].vs :
                /\ VariantFile(task[t], i) \in task[t].small /\ task[t].vs[i].pc = "fail"
                /\ task[t].vs[j].pc = "ok"

\* one family asked for by name and by the URL of a font file; a generic family
\* asked for by name and by URL
EnvsKinds ==
    { Env({<<NameB, NameB>>, <<NameB, UrlTtf>>}, {CssOne}, p, down) :
        p \in {NoPrebuilt, [exists |-> TRUE, files |-> {PrebuiltB}]}, down \in BOOLEAN }
    \cup { Env({<<NameSerif, NameSerif>>, <<NameSerif, UrlTtf>>}, {CssOne}, NoPrebuilt, down) :
              down \in BOOLEAN }

InitKinds ==
    /\ Started
    /\ fetch = NoFetch
    /\ env \in EnvsKinds
    /\ disk \in InitialDisks(env)
    /\ render = NoRender

NextKinds ==
    \/ Call
    \/ \E t \in Calls : MkdirDone(t)
    \/ \E t \in Calls : ReaddirPrebuiltDone(t)
    \/ \E t \in Calls : CssFetchDone(t)
    \/ \E t \in Calls : MkdirVariantsDone(t)
    \/ \E t \in Calls, i \in 1..2 : VariantUnlinkDone(t, i)
    \/ \E t \in Calls, i \in 1..2 : VariantFetchDone(t, i)
    \/ \E t \in Calls, i \in 1..2 : VariantWriteDone(t, i)
    \/ \E t \in Calls : ReaddirAliasDone(t)
    \/ \E t \in Calls : CustomFetchDone(t)
    \/ \E t \in Calls : CustomWriteDone(t)
    \/ clearMemoryCache
    \/ clearFailedFonts

\* the loader with callers that give one family both kinds of source
SpecKinds == InitKinds /\ [][NextKinds]_vars

\* C12: the kind of source is part of the key: a call attaches only to an
\* execution of its own identity, and a call that returns at once returns what a
\* resolve() of its own identity (same normalized name, same kind of source)
\* returned.
C12_SourceKindInKey ==
    [][\A t \in Calls : IsCall(t) =>
        LET id == Identity(task'[t].fontName, task'[t].src)
        IN  /\ task'[t].pc = "attached" => CallId(task'[t].orig) = id
            /\ (task'[t].pc = "done" /\ ~IsGeneric(task'[t].src))
                    => (Has(memo, id) /\ memo[id].result = task'[t].result)]_vars

\* C13: a family that the fonts object of the render binds to a URL is resolved
\* with that URL as its source, never by name.
C13_FontsMapUrlIsUsed ==
    \A t \in Calls :
        (task[t].pc # "idle" /\ render.pc # "idle") =>
            \A i \in DOMAIN render.fonts :
                (render.fonts[i][1] = task[t].fontName /\ IsUrl(render.fonts[i][2]))
                    => task[t].src = render.fonts[i][2]

\* C14: resolve() of a family whose normalized name is, in lower case, a generic or
\* system family returns true at once and leaves downloadedFonts, failedFonts,
\* fontMetadataCache, cssCache, downloadingFonts, the cache directory and the
\* registry as they were.
C14_GenericFamilyReturnsAtOnce ==
    [][\A t \in Calls :
        (IsCall(t) /\ ToLower(Norm(task'[t].fontName)) \in genericFontFamilies)
            => /\ ReturnedAtOnce(t, "true")
               /\ UNCHANGED <<downloadedFonts, failedFonts, fontMetadataCache, cssCache,
                              downloadingFonts, disk, families>>]_vars

\* C15: the pre-built directory comes before the network whatever the kind of
\* source: no fetch is issued for a call whose family has a file in the pre-built
\* directory that loads as a font.
C15_PrebuiltBeforeNetwork ==
    \A t \in Calls :
        (/\ task[t].pc # "idle"
         /\ \E f \in PrebuiltMatches(env.prebuilt.files, Norm(task[t].fontName)) : f.font)
            => ~task[t].net

\* C16: clearMemoryCache() and clearFailedFonts() leave every file of the cache
\* directory as it was; clearFailedFonts() changes the failure set and nothing else
\* of the loader; neither drops an in-flight handle nor moves a running resolution,
\* and a caller attached to an execution is settled with that execution's result.
C16_AdminTouchesOnlyMemory ==
    [][/\ clearMemoryCache
            => UNCHANGED <<disk, task, downloadingFonts, downloadedFonts, failedFonts, families>>
       /\ clearFailedFonts
            => /\ failedFonts' = {}
               /\ UNCHANGED <<disk, task, downloadingFonts, downloadedFonts, cssCache,
                              fontMetadataCache, families>>
       /\ \A t \in Calls :
            (task[t].pc = "attached" /\ task'[t].pc = "done")
                => /\ task'[task[t].orig].pc = "done"
                   /\ task'[t].result = task'[task[t].orig].result]_vars

\* both calls have run and an execution that was in flight at clearMemoryCache() is
\* still running with its handle: its parsed URLs were cached before its variants
\* began, and the metadata cache is empty again; the failure of the other call was
\* memoized and the failure set is empty again
C16_Witness ==
    \E t, u \in Calls :
        /\ task[t].pc = "variants" /\ ~IsUrl(task[t].src)
        /\ Has(downloadingFonts, task[t].fontName)
        /\ fontMetadataCache = EmptyMap /\ cssCache = EmptyMap
        /\ task[u].pc = "done" /\ task[u].result = "false"
        /\ failedFonts = {}

\* the caller has its answer: the slot of a settled call is free for the next call
Return(t) ==
    /\ task[t].pc = "done"
    /\ task' = [task EXCEPT ![t] = IdleTask]
    /\ UNCHANGED <<downloadedFonts, failedFonts, downloadingFonts, cssCache,
                   fontMetadataCache, disk, families, memo, registeredFonts,
                   fontFallbackMap, render, now, env, fetch, pool, batch>>

\* the loader with callers that come back: calls follow one another without end
SpecAgain == InitKinds /\ [][NextKinds \/ \E t \in Calls : Return(t)]_vars

\* C17: after clearFailedFonts() the first resolve() for an identity whose failure was
\* memoized, made while no call of that identity is running, starts a new run of
\* the tiers under a new in-flight handle; and a run that ends false leaves the
\* requested name in the failure set again.
C17_ClearedFailureIsRetried ==
    [][\A t \in Calls :
        /\ IsCall(t) =>
            LET name == task'[t].fontName
                id == Identity(name, task'[t].src)
            IN  (/\ Has(memo, id) /\ memo[id].result = "cleared"
                 /\ \A u \in Calls : Live(task[u]) => CallId(u) # id)
                    => (/\ task'[t].pc = "mkdir"
                        /\ Has(downloadingFonts', name)
                        /\ ~Has(downloadingFonts, name))
        /\ (Live(task[t]) /\ task'[t].pc = "done" /\ task'[t].result = "false")
                => task'[t].fontName \in failedFonts']_vars

\* C18: when a run of the tiers ends true for a requested name that differs from
\* its normalized name, files are registered for the family, and every file
\* registered under one of the two names is registered under the other too.
C18_BothAliasesRegistered ==
    [][\A t \in Calls :
        (/\ Live(task[t]) /\ task'[t].pc = "done" /\ task'[t].result = "true"
         /\ task[t].fontName # Norm(task[t].fontName))
            => LET both == {task[t].fontName, Norm(task[t].fontName)}
                   files == {p[1] : p \in {q \in families' : q[2] \in both}}
               IN  /\ files # {}
                   /\ \A f \in files, a \in both : <<f, a>> \in families']_vars

\* C19: within one resolution GlobalFonts.registerFromPath is called at most once
\* with a given file and alias, and a resolution that ran a tier and ended true
\* called it.
C19_RegisteredOncePerPair ==
    \A t \in Calls :
        /\ task[t].twice = {}
        /\ (task[t].pc = "done" /\ task[t].result = "true" /\ task[t].net)
                => task[t].regs # {}

\* C20: no two writeFile calls to one path of the cache directory are in progress
\* at the same time: the variants of one execution go to pairwise distinct paths,
\* and two executions never write the same path at once.
C20_OneWriterPerPath ==
    LET writing(t) ==
            {VariantFile(task[t], i) : i \in {j \in DOMAIN task[t].vs : task[t].vs[j].pc = "write"}}
                \cup (IF task[t].pc = "writeCustom" THEN {CustomFile(task[t])} ELSE {})
    IN  /\ \A t \in Calls : \A i, j \in DOMAIN task[t].vs :
                i # j => VariantFile(task[t], i) # VariantFile(task[t], j)
        /\ \A t, u \in Calls : t # u => writing(t) \cap writing(u) = {}

\* C21: a writeFile to a path of the cache directory completes only when no file
\* that loads as a font is at that path.
C21_NoOverwriteOfValidFile ==
    [][\A t \in Calls :
        /\ \A i \in DOMAIN task[t].vs :
                (task[t].vs[i].pc = "write" /\ task'[t].vs[i].pc # "write")
                    => ~Loads(Pack, VariantFile(task[t], i))
        /\ (task[t].pc = "writeCustom" /\ task'[t].pc # "writeCustom")
                => ~Loads(Pack, CustomFile(task[t]))]_vars

\* C22: downloadingFonts holds a handle under the requested name of a call exactly
\* while that call runs the tiers, so its size (inProgressDownloads of getCacheStats)
\* is the number of running executions, and it is empty once every call has
\* returned.
C22_HandleExactlyWhileLive ==
    /\ \A t \in Calls :
            Live(task[t]) <=> (/\ Has(downloadingFonts, task[t].fontName)
                               /\ downloadingFonts[task[t].fontName] = t)
    /\ Cardinality(DOMAIN downloadingFonts) = Cardinality({t \in Calls : Live(task[t])})
    /\ (\A t \in Calls : task[t].pc \in {"idle", "done"}) => downloadingFonts = EmptyMap

\* one execution has ended false and its handle is gone while another still runs
\* under its own handle
C22_Witness ==
    \E t, u \in Calls :
        /\ task[t].pc = "done" /\ task[t].result = "false" /\ task[t].orig = 0
        /\ task[t].fontName \in failedFonts
        /\ ~Has(downloadingFonts, task[t].fontName)
        /\ Live(task[u]) /\ task[u].net
        /\ DOMAIN downloadingFonts = {task[u].fontName}

\* C23: after a resolution by name that started with every cache empty, ended true
\* and got a font for each of the k variants of its manifest, the cache directory
\* holds exactly the k variant files, and downloadedFonts (whose size is
\* downloadedFonts of getCacheStats) has one key for the family.
C23_OneEntryPerResolvedIdentity ==
    \A t \in Calls :
        LET tr == task[t]
        IN  (/\ tr.pc = "done" /\ tr.result = "true" /\ ~IsUrl(tr.src)
             /\ tr.cold /\ tr.bare
             /\ tr.vs # <<>> /\ \A i \in DOMAIN tr.vs : tr.vs[i].pc = "ok")
                => /\ DOMAIN disk = {VariantFile(tr, i) : i \in DOMAIN tr.urls}
                   /\ Cardinality(DOMAIN disk) = Len(tr.urls)
                   /\ Cardinality({k \in DOMAIN downloadedFonts :
                                        Norm(k) = Norm(tr.fontName)}) = 1

\* --------------------------------------------------------- fetchWithRetry

\* a wait that does not grow with the attempts, which C24 rules out
FlatBackoff(i) == 1000

\* setTimeout(resolve, 1000 * (i + 1))
Backoff(i) == 1000 * (i + 1)

\* the await of fetch(url, ...) under its 30 s abort timer is over, with a
\* response, whatever its status, or with an error thrown: a response is returned;
\* an error on the last attempt is thrown again, after a DNS lookup when it is a
\* DNS error; on an earlier attempt the wait starts
AttemptDone ==
    /\ fetch.pc = "attempt"
    /\ \E o \in {[status |-> x] : x \in {200, 404, 500}}
                \cup {[code |-> x] : x \in {"ENOTFOUND", "ECONNRESET", "AbortError"}} :
        fetch' = [fetch EXCEPT
                    !.log = Append(@, o),
                    !.pc = IF "status" \in DOMAIN o THEN "returned"
                           ELSE IF fetch.i = fetch.retries - 1
                                THEN IF o.code = "ENOTFOUND" THEN "lookup" ELSE "thrown"
                                ELSE "wait"]
    /\ UNCHANGED <<task, downloadedFonts, failedFonts, downloadingFonts, cssCache,
                   fontMetadataCache, disk, families, memo, registeredFonts,
                   fontFallbackMap, render, now, env, pool, batch>>

\* the timer of the wait has fired: i++, and the next attempt
WaitDone ==
    /\ fetch.pc = "wait"
    /\ fetch' = [fetch EXCEPT !.waits = Append(@, Backoff(fetch.i)), !.i = @ + 1,
                              !.pc = "attempt"]
    /\ UNCHANGED <<task, downloadedFonts, failedFonts, downloadingFonts, cssCache,
                   fontMetadataCache, disk, families, memo, registeredFonts,
                   fontFallbackMap, render, now, env, pool, batch>>

\* dns.lookup is over, whatever it gave: the error of the last attempt is thrown
LookupDone ==
    /\ fetch.pc = "lookup"
    /\ fetch' = [fetch EXCEPT !.pc = "thrown"]
    /\ UNCHANGED <<task, downloadedFonts, failedFonts, downloadingFonts, cssCache,
                   fontMetadataCache, disk, families, memo, registeredFonts,
                   fontFallbackMap, render, now, env, pool, batch>>

\* fetchWithRetry(url, options, retries) up to its first await: with no attempt to
\* make the loop is skipped and 'All fetch attempts failed' is thrown
InitFetch ==
    /\ Started
    /\ env = Env({}, {}, NoPrebuilt, FALSE)
    /\ disk = EmptyMap
    /\ render = NoRender
    /\ \E retries \in 0..MaxRetries :
        fetch = [NoFetch EXCEPT !.retries = retries,
                                !.pc = IF retries = 0 THEN "thrown" ELSE "attempt"]

\* one call of fetchWithRetry, from its first attempt to its return or throw
SpecFetch == InitFetch /\ [][AttemptDone \/ WaitDone \/ LookupDone]_vars

\* C24: fetchWithRetry makes at most `retries` attempts; every attempt before the
\* last one made ended in an error thrown, and an attempt that gives a response,
\* whatever its status, is the last and the call returns; the wait after the
\* failed attempt number k is k seconds; the error of attempt number `retries` is
\* thrown with no wait and no attempt after it.
C24_RetryOnlyOnTransportFailure ==
    LET n == Len(fetch.log)
    IN  /\ n <= fetch.retries
        /\ \A k \in 1..(n - 1) : "code" \in DOMAIN fetch.log[k]
        /\ (n > 0 /\ "status" \in DOMAIN fetch.log[n]) <=> fetch.pc = "returned"
        /\ \A k \in DOMAIN fetch.waits : fetch.waits[k] = 1000 * k
        /\ fetch.pc = "attempt" => Len(fetch.waits) = n
        /\ (fetch.pc \in {"wait", "returned", "lookup", "thrown"} /\ n > 0)
                => Len(fetch.waits) = n - 1
        /\ fetch.pc = "wait" => n < fetch.retries
        /\ fetch.pc \in {"lookup", "thrown"}
                => (n = fetch.retries /\ \A k \in 1..n : "code" \in DOMAIN fetch.log[k])

\* the three attempts of the default failed: waits of 1 s and 2 s between them, and
\* the throw
C24_Witness ==
    /\ fetch.pc = "thrown" /\ fetch.retries = 3
    /\ Len(fetch.log) = 3 /\ fetch.waits = <<1000, 2000>>

\* the loader when every await that was started is over at some time: each fetch
\* ends with a response or, out of retries, with a throw, and each file-system
\* call ends. The condition is weak fairness of the completion of an await,
\* WF_vars(completion), with ENABLED written out as the awaits the calls stand at.
SpecLive ==
    /\ Init
    /\ [][Next]_vars
    /\ \/ []<>(\A t \in Calls :
                /\ task[t].pc \notin {"mkdir", "readdirPrebuilt", "fetchCss", "mkdirVariants",
                                       "readdirAlias", "fetchCssUrl", "fetchCustom",
                                       "writeCustom"}
                /\ task[t].pc = "variants"
                        => \A i \in DOMAIN task[t].vs :
                                task[t].vs[i].pc \notin {"unlink", "fetch", "write"})
       \/ []<><<\E t \in Calls :
                    \/ MkdirDone(t) \/ ReaddirPrebuiltDone(t) \/ CssFetchDone(t)
                    \/ MkdirVariantsDone(t) \/ ReaddirAliasDone(t) \/ CssUrlFetchDone(t)
                    \/ CustomFetchDone(t) \/ CustomWriteDone(t)
                    \/ \E i \in 1..2 : VariantUnlinkDone(t, i) \/ VariantFetchDone(t, i)
                                            \/ VariantWriteDone(t, i)>>_vars

\* C25: every call of resolve() returns, true or false; when an execution ends its
\* handle is gone and every caller attached to it has returned with its result.
C25_EveryResolveReturns ==
    /\ \A t \in Calls :
            (task[t].pc # "idle") ~> (task[t].pc = "done" /\ task[t].result \in {"true", "false"})
    /\ [][\A t \in Calls :
            (Live(task[t]) /\ task'[t].pc = "done")
                => /\ ~Has(downloadingFonts', task[t].fontName)
                   /\ \A u \in Calls :
                        (task[u].pc = "attached" /\ task[u].orig = t)
                            => (task'[u].pc = "done" /\ task'[u].result = task'[t].result)]_vars

\* with the network down the fetch of a font URL ran out of retries: the call and
\* the caller attached to it both returned false, and no handle is left
C25_Witness ==
    \E t, u \in Calls :
        /\ env.netDown /\ IsUrl(task[t].src) /\ task[t].net
        /\ task[t].pc = "done" /\ task[t].result = "false"
        /\ task[u].orig = t /\ task[u].pc = "done" /\ task[u].result = "false"
        /\ downloadingFonts = EmptyMap

\* C26: a resolution by name that comes to fontMetadataCache and finds an entry
\* for its family whose age is at most CACHE_TTL takes the entry as it is: the
\* entry is not counted as expired and no manifest is fetched.
C26_EntryAtTtlIsFresh ==
    [][\A t \in Calls :
        LET key == CleanFontName(task[t].src)
        IN  (/\ task[t].pc \in {"mkdir", "readdirPrebuilt"} /\ ~IsUrl(task[t].src)
             /\ task'[t].pc # task[t].pc
             /\ Has(fontMetadataCache, key)
             /\ now - fontMetadataCache[key].timestamp <= CACHE_TTL)
                => (~task'[t].stale /\ ~task'[t].mnet)]_vars

\* C27: fetchGoogleFontCSS fetches its endpoints one after the other, in the order
\* of its list. When the fetch of an endpoint is over, either the body has a
\* font-face declaration and is taken (it is in cssCache, and no further endpoint
\* is fetched), or the next endpoint is fetched and nothing is cached, or it was
\* the last one and the resolution ends false.
C27_EndpointsInOrder ==
    /\ [](\A t \in Calls : task[t].pc = "fetchCss" => task[t].cssIdx \in 1..CssEndpoints)
    /\ [][\A t \in Calls :
            (task[t].pc = "fetchCss" /\ task'[t] # task[t])
                => LET key == CssCacheKey(ReplaceBlankRuns(Norm(task[t].src), "+"))
                   IN  \/ /\ task'[t].pc # "fetchCss"
                          /\ task'[t].cssIdx = task[t].cssIdx
                          /\ Has(cssCache', key)
                          /\ \E i \in DOMAIN cssCache'[key] : cssCache'[key][i].k = "face"
                       \/ /\ task[t].cssIdx < CssEndpoints
                          /\ task'[t].pc = "fetchCss"
                          /\ task'[t].cssIdx = task[t].cssIdx + 1
                          /\ cssCache' = cssCache
                       \/ /\ task[t].cssIdx = CssEndpoints
                          /\ task'[t].pc = "done" /\ task'[t].result = "false"
                          /\ cssCache' = cssCache]_vars

\* the first endpoint gave nothing, the second one a manifest: the variants are
\* being downloaded and the third endpoint was not fetched
C27_Witness ==
    \E t \in Calls :
        /\ task[t].pc = "variants" /\ task[t].cssIdx = 2 /\ task[t].mnet
        /\ Has(cssCache, CssCacheKey(ReplaceBlankRuns(Norm(task[t].src), "+")))
        /\ \A u \in Calls \ {t} : task[u].pc = "idle"

\* ------------------------------------------------------- the parser's inputs

\* one family asked for by name, and a server that answers with one manifest: any
\* text of up to MaxItems items
InitParse ==
    /\ Started
    /\ fetch = NoFetch
    /\ disk = EmptyMap
    /\ render = NoRender
    /\ \E n \in 0..MaxItems :
        \E css \in [1..n -> { Face, Weight("400"), Weight("700"), UnicodeRange(FALSE),
                               Src("r", "gstatic", ".ttf", TRUE),
                               Src("b", "gstatic", ".ttf", FALSE),
                               Src("w", "gstatic", ".woff2", FALSE) }] :
            env = Env({<<NameB, NameB>>}, {css}, NoPrebuilt, FALSE)

\* the loader up to the point where the manifest is parsed
SpecParse ==
    InitParse /\ [][Call \/ \E t \in Calls : MkdirDone(t) \/ CssFetchDone(t)]_vars

\* C28: the pairs the parser returns are those of one pattern: the first pattern's
\* when it finds any, else the second's when it finds any, else the third's; with
\* nothing found by any of them the resolution ends false.
C28_PatternsInPriorityOrder ==
    \A t \in Calls :
        LET key == CssCacheKey(ReplaceBlankRuns(Norm(task[t].src), "+"))
            css == cssCache[key]
            a == Pattern1(css, 1, <<>>)
            b == Pattern2(css, 1, 0, <<>>)
            c == Pattern3(Sections(css), <<>>)
        IN  (task[t].mnet /\ Has(cssCache, key) /\ task[t].pc \in {"mkdirVariants", "done"})
                => /\ a # <<>> => task[t].urls = a
                   /\ (a = <<>> /\ b # <<>>) => task[t].urls = b
                   /\ (a = <<>> /\ b = <<>>) => task[t].urls = c
                   /\ task[t].urls = <<>> <=> (task[t].pc = "done" /\ task[t].result = "false")

\* a manifest the second and the third pattern both match, and the first does
\* not: the pairs are the second's
C28_Witness ==
    \E t \in Calls :
        LET css == cssCache[CssCacheKey(ReplaceBlankRuns(Norm(task[t].src), "+"))]
        IN  /\ task[t].pc = "mkdirVariants" /\ task[t].mnet
            /\ Pattern1(css, 1, <<>>) = <<>>
            /\ Pattern2(css, 1, 0, <<>>) # <<>>
            /\ Pattern3(Sections(css), <<>>) # <<>>
            /\ task[t].urls = Pattern2(css, 1, 0, <<>>)

\* C29: when the manifest a resolution by name has just fetched has no URL for any
\* of the three patterns, the resolution ends there with false: no other endpoint
\* is fetched, no variant is started, fontMetadataCache is left as it was and the
\* requested name is in failedFonts.
C29_NoUrlsFailsAtOnce ==
    [][\A t \in Calls :
        LET key == CssCacheKey(ReplaceBlankRuns(Norm(task[t].src), "+"))
        IN  (/\ task[t].pc = "fetchCss" /\ task'[t] # task[t]
             /\ ~Has(cssCache, key) /\ Has(cssCache', key)
             /\ Pattern1(cssCache'[key], 1, <<>>) = <<>>
             /\ Pattern2(cssCache'[key], 1, 0, <<>>) = <<>>
             /\ Pattern3(Sections(cssCache'[key]), <<>>) = <<>>)
                => /\ task'[t].pc = "done" /\ task'[t].result = "false"
                   /\ task'[t].cssIdx = task[t].cssIdx
                   /\ task'[t].vs = <<>> /\ task'[t].urls = <<>>
                   /\ fontMetadataCache' = fontMetadataCache
                   /\ task[t].fontName \in failedFonts']_vars

\* the first endpoint answered with a manifest that has font-face declarations and
\* no URL any pattern takes: the call returned false with no variant started and
\* nothing in fontMetadataCache
C29_Witness ==
    \E t \in Calls :
        LET key == CssCacheKey(ReplaceBlankRuns(Norm(task[t].src), "+"))
        IN  /\ task[t].pc = "done" /\ task[t].result = "false"
            /\ task[t].mnet /\ task[t].cssIdx = 1 /\ task[t].vs = <<>>
            /\ Has(cssCache, key) /\ cssCache[key] = CssNoUrls
            /\ fontMetadataCache = EmptyMap
            /\ task[t].fontName \in failedFonts

\* C30: downloadGoogleFontDirect returns true (downloadGoogleFont goes on to read
\* the cache directory) exactly when one of its variants was registered, from a
\* cached file that loads or from a download; once the variants are under way it
\* returns false only with none registered, so a call by name that ended with a
\* registered variant ended with true whatever became of the other variants.
C30_SuccessIffSomeVariantRegistered ==
    /\ [](\A t \in Calls :
            (/\ task[t].pc = "done" /\ ~IsUrl(task[t].src)
             /\ \E i \in DOMAIN task[t].vs : task[t].vs[i].pc = "ok")
                => task[t].result = "true")
    /\ [][\A t \in Calls :
            LET registered == {i \in DOMAIN task'[t].vs :
                                /\ task'[t].vs[i].pc = "ok"
                                /\ <<VariantFile(task'[t], i), VariantAlias(task'[t])>> \in families'}
            IN  /\ (~IsUrl(task[t].src) /\ task[t].pc # "readdirAlias"
                        /\ task'[t].pc = "readdirAlias")
                        => (task[t].pc \in {"mkdirVariants", "variants"} /\ registered # {})
                /\ (~IsUrl(task[t].src) /\ task[t].pc \in {"mkdirVariants", "variants"}
                        /\ task'[t].pc \notin {"mkdirVariants", "variants"})
                        => IF registered # {}
                           THEN task'[t].pc = "readdirAlias"
                           ELSE task'[t].pc = "done" /\ task'[t].result = "false"]_vars

\* a call by name returned true with one variant registered from a download and
\* another one failed
C30_Witness ==
    \E t \in Calls :
        /\ task[t].pc = "done" /\ task[t].result = "true" /\ ~IsUrl(task[t].src)
        /\ task[t].net
        /\ \E i, j \in DOMAIN task[t].vs :
                /\ task[t].vs[i].pc = "ok" /\ task[t].vs[j].pc = "fail"
                /\ <<VariantFile(task[t], i), VariantAlias(task[t])>> \in families

\* ------------------------------------------------------- families by name

\* callers that ask for families whose names are close to one another: B, "B M"
\* and "B-M" by name, "B M" and "B-M" by the URL of a font file, and B with "B M"
\* or a generic family as its source; the cache directory is empty when the
\* process starts
InitNames ==
    LET NameBM == <<"B", " ", "M">>
        NameBdM == <<"B", "-", "M">>
    IN  /\ Started
        /\ fetch = NoFetch
        /\ env \in { Env({<<NameB, NameB>>, <<NameBM, NameBM>>, <<NameBdM, NameBdM>>,
                           <<NameBM, UrlTtf>>, <<NameBdM, UrlTtf>>,
                           <<NameB, NameBM>>, <<NameB, NameSerif>>},
                          {CssOne}, NoPrebuilt, down) : down \in BOOLEAN }
        /\ disk = EmptyMap
        /\ render = NoRender

SpecNames ==
    /\ InitNames
    /\ [][\/ Call
          \/ \E t \in Calls : MkdirDone(t)
          \/ \E t \in Calls : CssFetchDone(t)
          \/ \E t \in Calls : MkdirVariantsDone(t)
          \/ \E t \in Calls : VariantFetchDone(t, 1)
          \/ \E t \in Calls : VariantWriteDone(t, 1)
          \/ \E t \in Calls : ReaddirAliasDone(t)
          \/ \E t \in Calls : CustomFetchDone(t)
          \/ \E t \in Calls : CustomWriteDone(t)
          \/ clearMemoryCache
          \/ clearFailedFonts]_vars

\* C31: every file a resolution by name registers is a variant file of its own
\* family, safe(X)-<weight>.ttf (or a file of the pre-built directory): a cached
\* file of another family whose name begins with safe(X) is not registered under
\* the alias of X.
C31_AliasFilesAreOwnVariants ==
    \A t \in Calls :
        ~IsUrl(task[t].src) =>
            \A p \in task[t].regs :
                LET safe == SafeFilename(CleanFontName(task[t].src))
                    path == p[1]
                IN  \/ StartsWith(path, PREBUILT_FONTS_DIR)
                    \/ /\ Len(path) = Len(safe) + 3
                       /\ StartsWith(path, safe)
                       /\ path[Len(safe) + 1] = "-"
                       /\ path[Len(path)] = ".ttf"

\* C32: families of distinct normalized names have distinct cache files: a call
\* that registered its files from the cache directory alone, with no fetch, shares
\* no file with a call for a family of another name (and the same kind of source).
C32_SafeNameIsInjective ==
    \A t, u \in Calls :
        LET family(tr) == Norm(IF IsUrl(tr.src) THEN tr.fontName ELSE tr.src)
        IN  (/\ task[t].pc = "done" /\ task[t].result = "true"
             /\ task[u].pc = "done" /\ task[u].result = "true"
             /\ IsUrl(task[t].src) = IsUrl(task[u].src)
             /\ family(task[t]) # family(task[u])
             /\ ~task[u].net)
                => /\ CachedFile(task[t]) # CachedFile(task[u])
                   /\ {p[1] : p \in task[t].regs} \cap {p[1] : p \in task[u].regs} = {}

\* ------------------------------------------------------------ availability

\* GlobalFonts.families lists a file registered with an alias under that alias
isFontAvailable(fontName) ==
    LET cleanFontName == CleanFontName(fontName)
    IN  \/ Has(downloadedFonts, fontName) \/ Has(downloadedFonts, cleanFontName)
        \/ \E p \in families : ToLower(p[2]) = ToLower(cleanFontName)

getAvailableFonts == {p[2] : p \in families} \cup DOMAIN downloadedFonts

\* C33: after resolve(family, source) has returned true, neither the family nor
\* the source being a generic family, isFontAvailable(family) is true and
\* getAvailableFonts() lists the family, as requested or without its fallback list.
C33_ResolvedFamilyIsAvailable ==
    \A t \in Calls :
        (/\ task[t].pc = "done" /\ task[t].result = "true"
         /\ ~IsGeneric(task[t].fontName) /\ ~IsGeneric(task[t].src))
            => /\ isFontAvailable(task[t].fontName)
               /\ \/ task[t].fontName \in getAvailableFonts
                  \/ CleanFontName(task[t].fontName) \in getAvailableFonts

\* C34: a span whose registerFont has just returned true is drawn with the family
\* it asks for, also when registerFont had returned false for that family before.
C34_FallbackOnlyWhileFailed ==
    [][(/\ render.pc = "span"
        /\ render'.pc \in {"span", "done"}
        /\ Len(render'.drawn) = Len(render.drawn) + 1
        /\ render.inst[1].pc = "true")
            => render'.drawn[Len(render'.drawn)] = render.doc[render.span]]_vars

\* -------------------------------------------------------------- worker pool

(* pool.workers is this.workers, pool.activeTasks the keys of this.activeTasks, *)
(* pool.nextTaskId the counter.  pool.promise[k] is the promise the k-th run()  *)
(* returned: its id, its state, and the worker the task was posted to (0 when   *)
(* this.workers[workerIndex] was undefined).  pool.up[w] says that the thread   *)
(* of worker w runs, pool.inbox[w] holds the ids of the tasks worker w has      *)
(* received and not answered, pool.mail the messages the workers have posted    *)
(* and the pool has not handled, pool.exits the threads that have ended and     *)
(* whose 'exit' event the pool has not handled.                                 *)

\* run(taskData): the executor of the promise.  With no worker left the index is
\* NaN, the worker undefined, and postMessage throws after activeTasks.set: the
\* promise is rejected.  A message posted to a thread that has ended is dropped.
run ==
    LET n == Len(pool.workers)
        id == ToString(pool.nextTaskId)
        worker == IF n = 0 THEN 0 ELSE pool.workers[(pool.nextTaskId % n) + 1]
    IN  /\ pool.nextTaskId < MaxTasks
        /\ pool' = [pool EXCEPT
                        !.nextTaskId = @ + 1,
                        !.activeTasks = @ \cup {id},
                        !.promise = Append(@, [id |-> id, to |-> worker,
                                               st |-> IF n = 0 THEN "rejected" ELSE "pending"]),
                        !.inbox = IF n # 0 /\ pool.up[worker]
                                  THEN [@ EXCEPT ![worker] = @ \cup {id}] ELSE @]
        /\ UNCHANGED <<task, downloadedFonts, failedFonts, downloadingFonts, cssCache,
                       fontMetadataCache, disk, families, memo, registeredFonts,
                       fontFallbackMap, render, now, env, fetch, batch>>

\* the message handler of the render worker: the render of task id is over, with
\* an image or with an error, and the answer is posted
WorkerReply(w, id, error) ==
    /\ pool.up[w]
    /\ id \in pool.inbox[w]
    /\ pool' = [pool EXCEPT !.inbox[w] = @ \ {id},
                            !.mail = @ \cup {[id |-> id, error |-> error]}]
    /\ UNCHANGED <<task, downloadedFonts, failedFonts, downloadingFonts, cssCache,
                   fontMetadataCache, disk, families, memo, registeredFonts,
                   fontFallbackMap, render, now, env, fetch, batch>>

onMessage(message) ==
    /\ message \in pool.mail
    /\ pool' = [pool EXCEPT
                    !.mail = @ \ {message},
                    !.activeTasks = @ \ {message.id},
                    !.promise = [k \in DOMAIN @ |->
                                    IF @[k].id = message.id /\ message.id \in pool.activeTasks
                                       /\ @[k].st = "pending"
                                    THEN [@[k] EXCEPT !.st = IF message.error THEN "rejected"
                                                             ELSE "resolved"]
                                    ELSE @[k]]]
    /\ UNCHANGED <<task, downloadedFonts, failedFonts, downloadingFonts, cssCache,
                   fontMetadataCache, disk, families, memo, registeredFonts,
                   fontFallbackMap, render, now, env, fetch, batch>>

\* an uncaught error in the thread of worker w: the thread ends with what it had
\* received, and onError logs
onError(w) ==
    /\ pool.up[w]
    /\ pool' = [pool EXCEPT !.up[w] = FALSE, !.inbox[w] = {}, !.exits = @ \cup {w}]
    /\ UNCHANGED <<task, downloadedFonts, failedFonts, downloadingFonts, cssCache,
                   fontMetadataCache, disk, families, memo, registeredFonts,
                   fontFallbackMap, render, now, env, fetch, batch>>

\* the 'exit' event of worker w, after an error or with the thread ending on its
\* own: the worker is removed from this.workers
onExit(w) ==
    /\ pool.up[w] \/ w \in pool.exits
    /\ pool' = [pool EXCEPT !.up[w] = FALSE, !.inbox[w] = {}, !.exits = @ \ {w},
                            !.workers = SelectSeq(@, LAMBDA x : x # w)]
    /\ UNCHANGED <<task, downloadedFonts, failedFonts, downloadingFonts, cssCache,
                   fontMetadataCache, disk, families, memo, registeredFonts,
                   fontFallbackMap, render, now, env, fetch, batch>>

\* the pool as its constructor leaves it, with no font asked for
InitPool ==
    /\ Started
    /\ fetch = NoFetch
    /\ env = Env({}, {}, NoPrebuilt, FALSE)
    /\ disk = EmptyMap
    /\ render = NoRender

\* the pool and its workers; a worker answers what it has received unless its
\* thread ends, and every message posted and every exit is handled
SpecPool ==
    /\ InitPool
    /\ [][\/ run
          \/ \E w \in 1..PoolSize, k \in 0..(MaxTasks - 1), error \in BOOLEAN :
                WorkerReply(w, ToString(k), error)
          \/ \E k \in 0..(MaxTasks - 1), error \in BOOLEAN :
                onMessage([id |-> ToString(k), error |-> error])
          \/ \E w \in 1..PoolSize : onError(w)
          \/ \E w \in 1..PoolSize : onExit(w)]_vars
    /\ WF_vars(\E w \in 1..PoolSize, k \in 0..(MaxTasks - 1), error \in BOOLEAN :
                    WorkerReply(w, ToString(k), error))
    /\ WF_vars(\E k \in 0..(MaxTasks - 1), error \in BOOLEAN :
                    onMessage([id |-> ToString(k), error |-> error]))
    /\ WF_vars(\E w \in pool.exits : onExit(w))

\* C35: every task given to run() is in the end settled and out of activeTasks,
\* and run() posts every task to a worker of this.workers.
C35_EveryTaskSettled ==
    /\ [](\A k \in DOMAIN pool.promise : pool.promise[k].to # 0)
    /\ \A k \in 1..MaxTasks :
            (Len(pool.promise) >= k)
                ~> (/\ Len(pool.promise) >= k
                    /\ pool.promise[k].st \in {"resolved", "rejected"}
                    /\ pool.promise[k].id \notin pool.activeTasks)

\* C36: the ids of the tasks are pairwise distinct; activeTasks holds exactly the
\* ids of the tasks whose promise is not settled; a message with id i settles the
\* task of id i and no other, resolving it without an error and rejecting it with
\* one, and a settled promise is never settled again.
C36_ActiveTasksAreThePending ==
    /\ [](\A j, k \in DOMAIN pool.promise : j # k => pool.promise[j].id # pool.promise[k].id)
    /\ [](pool.activeTasks = {pool.promise[k].id : k \in {j \in DOMAIN pool.promise :
                                                          pool.promise[j].st = "pending"}})
    /\ [][\A k \in DOMAIN pool.promise :
            /\ pool.promise[k].st # "pending" => pool'.promise[k] = pool.promise[k]
            /\ (pool.promise[k].st = "pending" /\ pool'.promise[k].st # "pending")
                    => \E m \in pool.mail \ pool'.mail :
                            /\ m.id = pool.promise[k].id
                            /\ pool'.promise[k].st = IF m.error THEN "rejected" ELSE "resolved"
                            /\ pool'.activeTasks = pool.activeTasks \ {m.id}]_vars

\* ------------------------------------------------------------ downloadFonts

(* batch.fonts is Object.entries(fonts), batch.pushed the entries whose async   *)
(* function has run to its end, batch.success and batch.failed the two arrays.  *)
(* Entry k is resolved by call k.                                               *)

\* downloadFonts(fonts) up to its first await: map() runs the async function of
\* every entry up to its await of downloadAndRegisterFont, in key order; with no
\* entry Promise.all([]) is fulfilled and the empty lists are returned
downloadFonts ==
    /\ batch.pc = "idle"
    /\ \A t \in Calls : task[t].pc = "idle"
    /\ \E n \in 0..MaxCalls : \E fonts \in [1..n -> env.universe] :
        LET RECURSIVE ResolveFrom(_, _)
            ResolveFrom(s, k) ==
                IF k > n THEN s
                ELSE ResolveFrom(Resolve(s, k, fonts[k][1], fonts[k][2]), k + 1)
        IN  /\ \A j, k \in 1..n : j # k => fonts[j][1] # fonts[k][1]
            /\ Unpack(ResolveFrom(Pack, 1))
            /\ batch' = [batch EXCEPT !.pc = IF n = 0 THEN "returned" ELSE "running",
                                      !.fonts = fonts]
    /\ UNCHANGED <<now, env, fetch, pool>>

\* an entry that lands in failed whatever its resolution returned, which C37
\* rules out
EntryFailed(k) ==
    /\ batch.pc = "running"
    /\ k \in DOMAIN batch.fonts \ batch.pushed
    /\ task[k].pc = "done"
    /\ batch' = [batch EXCEPT
                    !.pushed = @ \cup {k},
                    !.failed = Append(@, batch.fonts[k][1]),
                    !.pc = IF batch.pushed \cup {k} = DOMAIN batch.fonts THEN "returned" ELSE @]
    /\ UNCHANGED <<task, downloadedFonts, failedFonts, downloadingFonts, cssCache,
                   fontMetadataCache, disk, families, memo, registeredFonts,
                   fontFallbackMap, render, now, env, fetch, pool>>

\* the promise of downloadAndRegisterFont of entry k is settled: the name is pushed
\* to success or to failed (a rejection would reject Promise.all and with it
\* downloadFonts); with every entry through, Promise.all is fulfilled and the two
\* lists are returned
EntryDone(k) ==
    /\ batch.pc = "running"
    /\ k \in DOMAIN batch.fonts \ batch.pushed
    /\ task[k].pc = "done"
    /\ batch' = IF task[k].result = "rejected" THEN [batch EXCEPT !.pc = "rejected"]
                ELSE [batch EXCEPT
                        !.pushed = @ \cup {k},
                        !.success = IF task[k].result = "true"
                                    THEN Append(@, batch.fonts[k][1]) ELSE @,
                        !.failed = IF task[k].result = "true"
                                   THEN @ ELSE Append(@, batch.fonts[k][1]),
                        !.pc = IF batch.pushed \cup {k} = DOMAIN batch.fonts
                               THEN "returned" ELSE @]
    /\ UNCHANGED <<task, downloadedFonts, failedFonts, downloadingFonts, cssCache,
                   fontMetadataCache, disk, families, memo, registeredFonts,
                   fontFallbackMap, render, now, env, fetch, pool>>

\* the loader with downloadFonts as its caller
SpecBatch ==
    /\ Init
    /\ [][\/ downloadFonts
          \/ \E k \in Calls : EntryDone(k)
          \/ \E t \in Calls : MkdirDone(t)
          \/ \E t \in Calls : ReaddirPrebuiltDone(t)
          \/ \E t \in Calls : CssFetchDone(t)
          \/ \E t \in Calls : MkdirVariantsDone(t)
          \/ \E t \in Calls, i \in 1..2 : VariantUnlinkDone(t, i)
          \/ \E t \in Calls, i \in 1..2 : VariantFetchDone(t, i)
          \/ \E t \in Calls, i \in 1..2 : VariantWriteDone(t, i)
          \/ \E t \in Calls : ReaddirAliasDone(t)
          \/ \E t \in Calls : CssUrlFetchDone(t)
          \/ \E t \in Calls : CustomFetchDone(t)
          \/ \E t \in Calls : CustomWriteDone(t)
          \/ clearMemoryCache
          \/ clearFailedFonts]_vars

\* C37: downloadFonts starts the resolution of every entry before it awaits; it
\* never rejects; when it returns every resolution is over, and every key is in
\* exactly one of the two lists, once: in success when its resolution returned
\* true, in failed otherwise.
C37_BatchPartitionsItsKeys ==
    LET Count(list, name) == Cardinality({i \in DOMAIN list : list[i] = name})
    IN  /\ batch.pc # "rejected"
        /\ batch.pc # "idle" => \A k \in DOMAIN batch.fonts : task[k].pc # "idle"
        /\ batch.pc = "returned" =>
                \A k \in DOMAIN batch.fonts :
                    LET name == batch.fonts[k][1]
                    IN  /\ task[k].pc = "done"
                        /\ task[k].fontName = name
                        /\ Count(batch.success, name) + Count(batch.failed, name) = 1
                        /\ Count(batch.success, name) = 1 <=> task[k].result = "true"

\* downloadFonts of two names has returned, with one name in each list
C37_Witness ==
    /\ batch.pc = "returned"
    /\ Len(batch.fonts) = 2
    /\ Len(batch.success) = 1 /\ Len(batch.failed) = 1
    /\ \E k \in Calls : task[k].net /\ task[k].result = "true"

\* C38: the pairs the parser returns have pairwise distinct weights, so the
\* variant files of a resolution are pairwise distinct; of the matches of the
\* first pattern the first one of each weight is kept; the second pattern gives
\* at most three pairs, whose weights are 300, 400, 700 in this order.
C38_OnePairPerWeight ==
    \A t \in Calls :
        LET css == cssCache[CssCacheKey(ReplaceBlankRuns(Norm(task[t].src), "+"))]
            urls == task[t].urls
            RECURSIVE Matches1(_)
            Matches1(from) ==
                LET i == FirstFrom(from, {n \in DOMAIN css : css[n].k = "weight"})
                    j == IF i = 0 THEN 0
                         ELSE FirstFrom(i + 1, {n \in DOMAIN css : IsGstatic(css[n], ".ttf")})
                IN  IF i = 0 \/ j = 0 THEN <<>>
                    ELSE <<[url |-> [id |-> css[j].id, ext |-> ".ttf"], weight |-> css[i].w]>>
                            \o Matches1(j + 1)
            raw == Matches1(1)
        IN  (task[t].pc = "mkdirVariants" /\ task[t].mnet)
                => /\ \A i, j \in DOMAIN urls :
                        i # j => /\ urls[i].weight # urls[j].weight
                                 /\ VariantFile(task[t], i) # VariantFile(task[t], j)
                   /\ raw # <<>> =>
                        /\ {urls[i].weight : i \in DOMAIN urls} = {raw[j].weight : j \in DOMAIN raw}
                        /\ \A i \in DOMAIN urls :
                              \E j \in DOMAIN raw :
                                  /\ urls[i] = raw[j]
                                  /\ \A h \in 1..(j - 1) : raw[h].weight # raw[j].weight
                   /\ raw = <<>> /\ (\E n \in DOMAIN css : IsGstatic(css[n], ".ttf") /\ css[n].tt)
                        => /\ Len(urls) <= 3
                           /\ \A i \in DOMAIN urls : urls[i].weight = DefaultWeights[i]

\* a manifest of four sources the second pattern matches gave three pairs; or a
\* manifest with two sources under one weight gave the pair of the first one
C38_Witness ==
    \E t \in Calls :
        LET css == cssCache[CssCacheKey(ReplaceBlankRuns(Norm(task[t].src), "+"))]
        IN  /\ task[t].pc = "mkdirVariants" /\ task[t].mnet
            /\ \/ /\ Len(css) = 5 /\ css[1] = Face
                  /\ \A n \in 2..5 : IsGstatic(css[n], ".ttf") /\ css[n].tt
                  /\ Len(task[t].urls) = 3
               \/ /\ css = <<Face, Weight("400"), Src("r", "gstatic", ".ttf", TRUE),
                              Weight("400"), Src("b", "gstatic", ".ttf", FALSE)>>
                  /\ task[t].urls = <<[url |-> [id |-> "r", ext |-> ".ttf"], weight |-> "400"]>>

====
